---- MODULE Spec2Model ----
(***************************************************************************)
(* Model of the qdb backup and restore pipelines                           *)
(* (profullstack/quantum-database-backups).                                *)
(*                                                                         *)
(* One command invocation is modelled at a time: the `backup` command      *)
(* (cli.js action -> createBackup -> encryptBackupFile -> sendBackupEmail  *)
(* -> cleanup) or the `restore` command (cli.js action ->                  *)
(* restoreFromBackup).  The file system is the set `fs` of the paths that  *)
(* exist.  A path is a sequence of names and a name is the sequence of its *)
(* dot-separated parts, so that "a file name ends with .sql" and "append   *)
(* .encrypted" are computed on the name and not assumed.                   *)
(*                                                                         *)
(* External collaborators (provider tools, archiver, unzip, the            *)
(* post-quantum capability, SMTP, unlink/rm) are modelled by the set of    *)
(* outcomes they can have; the code's reaction to each is the code's.      *)
(*                                                                         *)
(* Three specifications share the variables.  Spec runs one command.       *)
(* SpecLibrary calls one exported function (validateRequiredKeys,          *)
(* loadKeys, a provider's validateConfig, createDump or restoreFromDump,   *)
(* dumpDatabase, encryptBackupFile, decryptBackupFile) on arguments drawn  *)
(* in its initial state.  SpecRegistry looks providers up and registers    *)
(* providers in any order.                                                 *)
(***************************************************************************)
EXTENDS Integers, Sequences, FiniteSets, TLC

VARIABLES
    cmd,          \* the command being run: "backup" or "restore"
    pc,           \* position of the invocation in its code
    fs,           \* set of paths present on disk
    now,          \* wall clock, in seconds since the invocation started
    keepFiles,    \* options.keepFiles (--keep-files)
    cliEmail,     \* options.email: "unset", "addr", or "false" (--no-email)
    cfgEmail,     \* saved config.defaultEmail: "unset" or "addr"
    smtpOk,       \* config.smtp.user and config.smtp.pass are both set
    dbNameSet,    \* a database name is given by the options or the config
    keysFile,     \* "unset" (no path given), "valid", or "invalid"
    keysInWorkDir,\* the keys path lies inside restore's working directory
    keyPair,      \* "own": the pair the artifact was encrypted to; "foreign"
    providerName, \* provider name handed to restoreFromBackup
    artifact,     \* kind of the encrypted input of restore
    dumpPath,     \* createBackup's dumpPath (NoPath before it is computed)
    zipPath,      \* createBackup's zipPath
    zipClosed,    \* the archive's output stream has emitted 'close'
    dumpFilePath, \* restoreFromBackup's dumpFilePath (NoPath before extraction)
    calls,        \* external operations invoked so far
    faults,       \* what the environment refused: "unavailable", failed deletions
    log,          \* lines written to the console, as records
    err,          \* message of the error being propagated, "none" if none
    exitCode,     \* process exit status, "running" until the command ends
    attachments,  \* paths handed to the mail transport as attachments
    providers,    \* providers/index.js: the Map from key to provider instance
    call,         \* library function called last, "none" before any call
    args,         \* the arguments of that call
    result        \* what that call returned or threw

vars == <<cmd, pc, fs, now, keepFiles, cliEmail, cfgEmail, smtpOk, dbNameSet,
          keysFile, keysInWorkDir, keyPair, providerName, artifact, dumpPath,
          zipPath, zipClosed, dumpFilePath, calls, faults, log, err, exitCode,
          attachments, providers, call, args, result>>

(***************************************************************************)
(* Bounds                                                                  *)
(***************************************************************************)
MaxClock == 1

(***************************************************************************)
(* Paths and names                                                         *)
(***************************************************************************)
NoPath == <<>>

Join(dir, name) == Append(dir, name)

Basename(p) == <<p[Len(p)]>>

IsUnder(p, d) == Len(p) >= Len(d) /\ SubSeq(p, 1, Len(d)) = d

EndsWith(name, ext) == Len(name) >= 2 /\ name[Len(name)] = ext

WithSuffix(p, ext) ==
    [p EXCEPT ![Len(p)] = Append(p[Len(p)], ext)]

\* utils.js generateTimestamp: the clock reading formatted YYYYMMDD-HHMMSS
generateTimestamp(t) ==
    CASE t = 0 -> "20261104-070000"
      [] t = 1 -> "20261104-070001"
      [] t = 2 -> "20261104-070002"
      [] OTHER -> "20261104-070003"

\* utils.js generateBackupFilename: supabase-backup-<timestamp>-<dbName>.<ext>
generateBackupFilename(dbName, extension, t) ==
    <<"supabase-backup", generateTimestamp(t), dbName, extension>>

dbName == "db"

backupWorkDir == << <<"backups">> >>

restoreWorkDir == << <<"restore-temp">> >>

encryptedBackupPath == << <<"input", "zip", "encrypted">> >>

decryptedZipPath == Join(restoreWorkDir, <<"decrypted-backup", "zip">>)

extractDir == Join(restoreWorkDir, <<"extracted">>)

encryptedFile == IF zipPath = NoPath THEN NoPath ELSE WithSuffix(zipPath, "encrypted")

\* cli.js: getAbsolutePath(options.keys), a path of the user's choosing
keysPath ==
    IF keysInWorkDir THEN Join(restoreWorkDir, <<"keys", "json">>)
                     ELSE << <<"keys", "json">> >>

(***************************************************************************)
(* Provider registry (providers/index.js)                                  *)
(***************************************************************************)
RegisteredProviders == {"supabase", "mongodb", "mysql", "postgres", "postgresql"}

\* lines 9-16: the Map built at module load; 'postgresql' is an alias that
\* holds the very instance registered as 'postgres'
InitialProviders ==
    << [key |-> "supabase", value |-> "supabaseProvider"],
       [key |-> "mongodb", value |-> "mongodbProvider"],
       [key |-> "mysql", value |-> "mysqlProvider"],
       [key |-> "postgres", value |-> "postgresProvider"],
       [key |-> "postgresql", value |-> "postgresProvider"] >>

\* a JavaScript Map: its entries in insertion order, one entry per key
MapKeys(map) == [i \in DOMAIN map |-> map[i].key]

MapHas(map, key) == \E i \in DOMAIN map : map[i].key = key

MapGet(map, key) ==
    IF MapHas(map, key) THEN map[CHOOSE i \in DOMAIN map : map[i].key = key].value
                        ELSE "undefined"

\* Map.prototype.set: the value of an existing key is replaced in place, a
\* new key is appended
MapSet(map, key, value) ==
    IF MapHas(map, key)
      THEN [i \in DOMAIN map |->
               IF map[i].key = key THEN [key |-> key, value |-> value] ELSE map[i]]
      ELSE Append(map, [key |-> key, value |-> value])

toLowerCase(name) ==
    CASE name = "Supabase" -> "supabase"
      [] name = "POSTGRES" -> "postgres"
      [] name = "SUPABASE" -> "supabase"
      [] name = "MongoDB" -> "mongodb"
      [] name = "MySQL" -> "mysql"
      [] name = "PostgreSQL" -> "postgresql"
      [] name = "Oracle" -> "oracle"
      [] OTHER -> name

hasProvider(name) == toLowerCase(name) \in RegisteredProviders

\* getFileExtension of the provider registered under a lower-cased name
getFileExtension(name) ==
    CASE name = "supabase" -> "sql"
      [] name = "mongodb" -> "archive"
      [] name = "mysql" -> "sql"
      [] OTHER -> "dump"

\* mutant: '.archive' is not looked for
DumpExtensionsNoArchive == {"sql", "dump", "bson"}

\* extensions extractZipArchive recognises as a dump file
DumpExtensions == {"sql", "dump", "archive", "bson"}

(***************************************************************************)
(* Console                                                                 *)
(***************************************************************************)
Line(kind, arg) == [kind |-> kind, arg |-> arg]

TypeOK ==
    /\ cmd \in {"backup", "restore"}
    /\ now \in 0..MaxClock
    /\ keepFiles \in BOOLEAN
    /\ zipClosed \in BOOLEAN
    /\ exitCode \in {"running", "0", "1", "crashed", "hung"}

(***************************************************************************)
(* Initial states                                                          *)
(***************************************************************************)
Init ==
    /\ cmd \in {"backup", "restore"}
    /\ pc = IF cmd = "backup" THEN "b_options" ELSE "r_loadKeys"
    /\ now = 0
    /\ keepFiles \in IF cmd = "backup" THEN BOOLEAN ELSE {FALSE}
    /\ cliEmail \in IF cmd = "backup" THEN {"unset", "addr", "false"} ELSE {"unset"}
    /\ cfgEmail \in IF cmd = "backup" THEN {"unset", "addr"} ELSE {"unset"}
    /\ smtpOk \in IF cmd = "backup" THEN BOOLEAN ELSE {FALSE}
    /\ dbNameSet \in IF cmd = "backup" THEN BOOLEAN ELSE {TRUE}
    /\ keysFile \in IF cmd = "backup" THEN {"unset", "valid", "invalid"}
                                       ELSE {"valid", "invalid"}
    /\ keysInWorkDir \in IF cmd = "restore" THEN BOOLEAN ELSE {FALSE}
    /\ keyPair \in IF cmd = "restore" THEN {"own", "foreign"} ELSE {"own"}
    /\ providerName \in IF cmd = "restore" THEN {"supabase", "POSTGRES", "oracle"}
                                            ELSE {"supabase"}
    /\ artifact \in IF cmd = "restore" THEN {"good", "nodump", "corrupt", "absent"}
                                        ELSE {"absent"}
    /\ \E dirExists \in BOOLEAN :
         fs = (IF cmd = "restore" /\ artifact # "absent"
                 THEN {encryptedBackupPath} ELSE {})
              \cup (IF dirExists \/ keysInWorkDir
                      THEN {IF cmd = "backup" THEN backupWorkDir ELSE restoreWorkDir}
                      ELSE {})
              \cup (IF keysFile # "unset" THEN {keysPath} ELSE {})
    /\ dumpPath = NoPath
    /\ zipPath = NoPath
    /\ zipClosed = FALSE
    /\ dumpFilePath = NoPath
    /\ calls = {}
    /\ faults = {}
    /\ log = {}
    /\ err = "none"
    /\ exitCode = "running"
    /\ attachments = {}
    /\ providers = InitialProviders
    /\ call = "none"
    /\ args = <<>>
    /\ result = <<>>

opts == <<cmd, keepFiles, cliEmail, cfgEmail, smtpOk, dbNameSet, keysFile,
          keysInWorkDir, keyPair, providerName, artifact>>

\* the state of the library functions, which no step of a command changes
lib == <<providers, call, args, result>>

locals == <<dumpPath, zipPath, zipClosed, dumpFilePath>>

(***************************************************************************)
(* The wall clock advances while a command runs.                           *)
(***************************************************************************)
Tick ==
    /\ exitCode = "running"
    /\ now < MaxClock
    /\ now' = now + 1
    /\ UNCHANGED <<opts, lib, attachments, locals, pc, fs, calls, faults, log,
                   err>>
    /\ UNCHANGED exitCode

(***************************************************************************)
(* Outcomes of the external collaborators                                  *)
(***************************************************************************)
\* a provider tool: exit 0 with the file written, exit 0 with no file,
\* non-zero exit with nothing written, non-zero exit with a partial file
ToolOutcomes == {"ok", "okNoFile", "fail", "failPartial"}

\* the post-quantum capability: "unbound" is the module-load fallback having
\* left encryptFile / decryptFile undefined, so that calling it is a TypeError
CapabilityOutcomes == {"ok", "okNoFile", "fail", "failPartial", "unbound"}

Wrote(o) == o \in {"ok", "failPartial"}

Returned(o) == o \in {"ok", "okNoFile"}

(***************************************************************************)
(* backup command: option checks (cli.js, backup action)                   *)
(***************************************************************************)
\* mergeConfig: email = options.email || config.defaultEmail || null
configEmail == IF cliEmail = "addr" THEN "addr" ELSE cfgEmail

\* commander stores --no-email as options.email = false: the key
\* options.noEmail that the action reads is never defined
optionsNoEmail == FALSE

emailEnabled == configEmail # "unset" /\ ~optionsNoEmail

OptionsError ==
    IF keysFile = "unset" THEN "Keys path not specified"
    ELSE IF configEmail = "unset" /\ ~optionsNoEmail THEN "Email not specified"
    ELSE IF ~dbNameSet THEN "Database name not specified"
    ELSE IF emailEnabled /\ ~smtpOk THEN "SMTP not configured"
    ELSE "none"

BackupCheckOptions ==
    /\ pc = "b_options"
    /\ IF OptionsError = "none"
         THEN pc' = "b_loadKeys" /\ err' = err
         ELSE pc' = "b_cliCatch" /\ err' = OptionsError
    /\ UNCHANGED <<opts, lib, attachments, locals, fs, now, calls, faults, log,
                   exitCode>>

\* mutant: the keys file is taken as it is
loadKeysAccepted == FALSE

\* encrypt.js loadKeys: readJsonFile, then validateRequiredKeys
loadKeysFails == keysFile # "valid"

BackupLoadKeys ==
    /\ pc = "b_loadKeys"
    /\ IF loadKeysFails
         THEN pc' = "b_cliCatch" /\ err' = "Keys not loaded"
         ELSE pc' = "b_ensureDir" /\ err' = err
    /\ UNCHANGED <<opts, lib, attachments, locals, fs, now, calls, faults, log,
                   exitCode>>

(***************************************************************************)
(* createBackup (backup.js)                                                *)
(***************************************************************************)
\* utils.js ensureDirectory: access, and mkdir -p when access fails
ensureDirectory(dirPath, files) == files \cup {dirPath}

\* line 78, outside the try block: a failing mkdir reaches the caller directly
CreateBackupEnsureDir ==
    /\ pc = "b_ensureDir"
    /\ \E mkdirOk \in BOOLEAN :
         IF backupWorkDir \in fs \/ mkdirOk
           THEN /\ fs' = ensureDirectory(backupWorkDir, fs)
                /\ pc' = "b_dumpName"
                /\ err' = err
           ELSE /\ fs' = fs
                /\ pc' = "b_cliCatch"
                /\ err' = "mkdir failed"
    /\ UNCHANGED <<opts, lib, attachments, locals, now, calls, faults, log,
                   exitCode>>

\* lines 81-84 and 87: the default provider's extension, the dump file name
CreateBackupDumpName ==
    /\ pc = "b_dumpName"
    /\ dumpPath' = Join(backupWorkDir,
                        generateBackupFilename(dbName, getFileExtension("supabase"), now))
    /\ pc' = "b_zipName"
    /\ UNCHANGED <<opts, lib, attachments, zipPath, zipClosed, dumpFilePath,
                   fs, now, calls, faults, log, err, exitCode>>

\* lines 85 and 88: a second reading of the clock
CreateBackupZipName ==
    /\ pc = "b_zipName"
    /\ zipPath' = Join(backupWorkDir, generateBackupFilename(dbName, "zip", now))
    /\ pc' = "b_isAvailable"
    /\ UNCHANGED <<opts, lib, attachments, dumpPath, zipClosed, dumpFilePath,
                   fs, now, calls, faults, log, err, exitCode>>

\* mutant: the result of the availability probe is not acted on
DumpIsAvailableIgnored ==
    /\ pc = "b_isAvailable"
    /\ calls' = calls \cup {"isAvailable"}
    /\ \E available \in BOOLEAN :
         faults' = IF available THEN faults ELSE faults \cup {"unavailable"}
    /\ pc' = "b_createDump"
    /\ UNCHANGED <<opts, lib, attachments, locals, fs, now, log, err,
                   exitCode>>

\* dumpDatabase lines 17-25: the availability probe
DumpIsAvailable ==
    /\ pc = "b_isAvailable"
    /\ calls' = calls \cup {"isAvailable"}
    /\ \E available \in BOOLEAN :
         IF available
           THEN /\ pc' = "b_createDump"
                /\ err' = err
                /\ faults' = faults
           ELSE /\ pc' = "b_catch"
                /\ err' = "Database dump failed: not available"
                /\ faults' = faults \cup {"unavailable"}
    /\ UNCHANGED <<opts, lib, attachments, locals, fs, now, log, exitCode>>

\* dumpDatabase line 28: provider.createDump(outputPath, options)
DumpCreateDump ==
    /\ pc = "b_createDump"
    /\ calls' = calls \cup {"createDump"}
    /\ faults' = faults
    /\ \E o \in ToolOutcomes :
         /\ fs' = IF Wrote(o) THEN fs \cup {dumpPath} ELSE fs
         /\ IF Returned(o)
              THEN pc' = "b_verifyDump" /\ err' = err
              ELSE pc' = "b_catch" /\ err' = "Database dump failed: tool failed"
    /\ UNCHANGED <<opts, lib, attachments, locals, now, log, exitCode>>

\* dumpDatabase line 31: fs.access(outputPath)
DumpVerify ==
    /\ pc = "b_verifyDump"
    /\ IF dumpPath \in fs
         THEN pc' = "b_zip" /\ err' = err
         ELSE pc' = "b_catch" /\ err' = "Database dump failed: no output file"
    /\ UNCHANGED <<opts, lib, attachments, locals, fs, now, calls, faults, log,
                   exitCode>>

\* mutant: the promise is resolved when finalize is called, not on 'close'
ZipStartResolvesEarly ==
    /\ pc = "b_zip"
    /\ calls' = calls \cup {"archive"}
    /\ faults' = faults
    /\ fs' = fs \cup {zipPath}
    /\ zipClosed' = FALSE
    /\ pc' = "b_encrypt"
    /\ UNCHANGED <<opts, lib, attachments, dumpPath, zipPath, dumpFilePath,
                   now, log, err, exitCode>>

\* createZipArchive lines 45-60: open the output stream, pipe, add, finalize
ZipStart ==
    /\ pc = "b_zip"
    /\ calls' = calls \cup {"archive"}
    /\ faults' = faults
    /\ fs' = fs \cup {zipPath}
    /\ zipClosed' = FALSE
    /\ pc' = "b_zipping"
    /\ UNCHANGED <<opts, lib, attachments, dumpPath, zipPath, dumpFilePath,
                   now, log, err, exitCode>>

\* createZipArchive lines 50-52: output 'close' resolves the promise
ZipClose ==
    /\ pc = "b_zipping"
    /\ zipClosed' = TRUE
    /\ pc' = "b_encrypt"
    /\ UNCHANGED <<opts, lib, attachments, dumpPath, zipPath, dumpFilePath, fs,
                   now, calls, faults, log, err, exitCode>>

\* createZipArchive lines 54-56: archive 'error' rejects the promise
ZipArchiveError ==
    /\ pc = "b_zipping"
    /\ pc' = "b_catch"
    /\ err' = "ZIP creation failed"
    /\ UNCHANGED <<opts, lib, attachments, locals, fs, now, calls, faults, log,
                   exitCode>>

\* an 'error' of the output stream has no handler in createZipArchive: the
\* promise is never settled, or the unhandled event ends the process
ZipStreamError ==
    /\ pc = "b_zipping"
    /\ \E end \in {"hung", "crashed"} : exitCode' = end
    /\ pc' = "done"
    /\ UNCHANGED <<opts, lib, attachments, locals, fs, now, calls, faults, log,
                   err>>

\* fs.unlink(filePath): removes the file unless the file system refuses
unlink(filePath, ok, files) == IF ok THEN files \ {filePath} ELSE files

\* the refusal to remove a file that exists, as the environment's record
UnlinkFault(what, filePath, ok, files) ==
    IF ~ok /\ filePath \in files THEN {what} ELSE {}

\* mutant: the catch block unlinks the archive only
CreateBackupCatchZipOnly ==
    /\ pc = "b_catch"
    /\ \E unlinkZipOk \in BOOLEAN :
         /\ fs' = unlink(zipPath, unlinkZipOk, fs)
         /\ faults' = faults \cup UnlinkFault("unlinkZip", zipPath, unlinkZipOk, fs)
    /\ pc' = "b_threw"
    /\ UNCHANGED <<opts, lib, attachments, locals, now, calls, log, err,
                   exitCode>>

\* mutant: a failed unlink is thrown in place of the stage's error
CreateBackupCatchEscalates ==
    /\ pc = "b_catch"
    /\ \E unlinkDumpOk \in BOOLEAN, unlinkZipOk \in BOOLEAN :
         /\ fs' = unlink(zipPath, unlinkZipOk, unlink(dumpPath, unlinkDumpOk, fs))
         /\ faults' = faults \cup UnlinkFault("unlinkDump", dumpPath, unlinkDumpOk, fs)
                             \cup UnlinkFault("unlinkZip", zipPath, unlinkZipOk, fs)
         /\ err' = IF faults' = faults THEN err ELSE "unlink failed"
    /\ pc' = "b_threw"
    /\ UNCHANGED <<opts, lib, attachments, locals, now, calls, log, exitCode>>

\* createBackup lines 101-111: unlink both, ignoring failures, and rethrow
CreateBackupCatch ==
    /\ pc = "b_catch"
    /\ \E unlinkDumpOk \in BOOLEAN, unlinkZipOk \in BOOLEAN :
         /\ fs' = unlink(zipPath, unlinkZipOk, unlink(dumpPath, unlinkDumpOk, fs))
         /\ faults' = faults \cup UnlinkFault("unlinkDump", dumpPath, unlinkDumpOk, fs)
                             \cup UnlinkFault("unlinkZip", zipPath, unlinkZipOk, fs)
    /\ pc' = "b_threw"
    /\ UNCHANGED <<opts, lib, attachments, locals, now, calls, log, err,
                   exitCode>>

\* the rejection of createBackup reaches the catch of the backup action
CreateBackupThrew ==
    /\ pc = "b_threw"
    /\ pc' = "b_cliCatch"
    /\ UNCHANGED <<opts, lib, attachments, locals, fs, now, calls, faults, log,
                   err, exitCode>>

(***************************************************************************)
(* backup command after createBackup (cli.js, backup action)               *)
(***************************************************************************)
\* encrypt.js encryptBackupFile: access the input, call the capability,
\* access the output; every failure becomes "Encryption failed"
EncryptBackupFile ==
    /\ pc = "b_encrypt"
    /\ faults' = faults
    /\ IF zipPath \notin fs
         THEN /\ pc' = "b_cliCatch"
              /\ err' = "Encryption failed"
              /\ UNCHANGED <<fs, calls>>
         ELSE \E o \in CapabilityOutcomes :
              /\ calls' = IF o = "unbound" THEN calls ELSE calls \cup {"encryptFile"}
              /\ fs' = IF Wrote(o) THEN fs \cup {encryptedFile} ELSE fs
              /\ IF Returned(o) /\ encryptedFile \in fs'
                   THEN pc' = "b_report" /\ err' = err
                   ELSE pc' = "b_cliCatch" /\ err' = "Encryption failed"
    /\ UNCHANGED <<opts, lib, attachments, locals, now, log, exitCode>>

\* lines 438-440: getFileSize, then the name (not the path) of the artifact
BackupReportEncrypted ==
    /\ pc = "b_report"
    /\ IF encryptedFile \in fs
         THEN /\ log' = log \cup {Line("Backup encrypted", Basename(encryptedFile))}
              /\ pc' = "b_email"
              /\ err' = err
         ELSE /\ log' = log
              /\ pc' = "b_cliCatch"
              /\ err' = "stat failed"
    /\ UNCHANGED <<opts, lib, attachments, locals, fs, now, calls, faults,
                   exitCode>>

\* lines 442-467 and email.js sendBackupEmail: access the attachment, sendMail
BackupSendEmail ==
    /\ pc = "b_email"
    /\ faults' = faults
    /\ IF ~emailEnabled
         THEN /\ pc' = "b_cleanup"
              /\ UNCHANGED <<calls, err, attachments>>
         ELSE IF encryptedFile \notin fs
         THEN /\ pc' = "b_cliCatch"
              /\ err' = "attachment missing"
              /\ UNCHANGED <<calls, attachments>>
         ELSE \E sent \in BOOLEAN :
              /\ calls' = calls \cup {"sendMail"}
              /\ attachments' = attachments \cup {encryptedFile}
              /\ IF sent
                   THEN pc' = "b_cleanup" /\ err' = err
                   ELSE pc' = "b_cliCatch" /\ err' = "Failed to send email"
    /\ UNCHANGED <<opts, lib, locals, fs, now, log, exitCode>>

\* mutant: the file is left in place
deleteFileKeeps(filePath, files) == files

\* utils.js deleteFile: unlink; ENOENT is ignored, any other error is thrown
deleteFile(filePath, files) == files \ {filePath}

\* deleteFile rethrows when unlink fails for a file that exists
deleteFileThrows(filePath, unlinkOk, files) == ~unlinkOk /\ filePath \in files

\* mutant: the cleanup removes every artifact of the run
BackupCleanupAll ==
    /\ pc = "b_cleanup"
    /\ fs' = IF keepFiles THEN fs ELSE fs \ {dumpPath, zipPath, encryptedFile}
    /\ pc' = "b_finish"
    /\ UNCHANGED <<opts, lib, attachments, locals, now, calls, faults, log,
                   err, exitCode>>

\* lines 469-475: deleteFile(dumpFile) then deleteFile(zipFile)
BackupCleanup ==
    /\ pc = "b_cleanup"
    /\ IF keepFiles
         THEN /\ pc' = "b_finish"
              /\ UNCHANGED <<fs, err, faults>>
         ELSE \E unlinkDumpOk \in BOOLEAN, unlinkZipOk \in BOOLEAN :
              IF deleteFileThrows(dumpPath, unlinkDumpOk, fs)
                THEN /\ fs' = fs
                     /\ pc' = "b_cliCatch"
                     /\ err' = "unlink failed"
                     /\ faults' = faults \cup {"unlinkDump"}
                ELSE IF deleteFileThrows(zipPath, unlinkZipOk, fs)
                THEN /\ fs' = deleteFile(dumpPath, fs)
                     /\ pc' = "b_cliCatch"
                     /\ err' = "unlink failed"
                     /\ faults' = faults \cup {"unlinkZip"}
                ELSE /\ fs' = deleteFile(zipPath, deleteFile(dumpPath, fs))
                     /\ pc' = "b_finish"
                     /\ err' = err
                     /\ faults' = faults
    /\ UNCHANGED <<opts, lib, attachments, locals, now, calls, log, exitCode>>

\* lines 477-488: the success report, with the artifact's path
BackupFinish ==
    /\ pc = "b_finish"
    /\ log' = log \cup {Line("completed", NoPath), Line("Encrypted backup", encryptedFile)}
    /\ exitCode' = "0"
    /\ pc' = "done"
    /\ UNCHANGED <<opts, lib, attachments, locals, fs, now, calls, faults,
                   err>>

\* lines 489-492: print the error message and exit with status 1
BackupCliCatch ==
    /\ pc = "b_cliCatch"
    /\ log' = log \cup {Line("Error", << <<err>> >>)}
    /\ exitCode' = "1"
    /\ pc' = "done"
    /\ UNCHANGED <<opts, lib, attachments, locals, fs, now, calls, faults,
                   err>>

(***************************************************************************)
(* restore command (cli.js, restore action) and restoreFromBackup          *)
(***************************************************************************)
RestoreLoadKeys ==
    /\ pc = "r_loadKeys"
    /\ IF loadKeysFails
         THEN pc' = "r_cliCatch" /\ err' = "Keys not loaded"
         ELSE pc' = "r_ensureDir" /\ err' = err
    /\ UNCHANGED <<opts, lib, attachments, locals, fs, now, calls, faults, log,
                   exitCode>>

\* restore.js line 59, outside the try block: no finally runs if it throws
RestoreEnsureDir ==
    /\ pc = "r_ensureDir"
    /\ \E mkdirOk \in BOOLEAN :
         IF restoreWorkDir \in fs \/ mkdirOk
           THEN /\ fs' = ensureDirectory(restoreWorkDir, fs)
                /\ pc' = "r_decrypt"
                /\ err' = err
           ELSE /\ fs' = fs
                /\ pc' = "r_cliCatch"
                /\ err' = "mkdir failed"
    /\ UNCHANGED <<opts, lib, attachments, locals, now, calls, faults, log,
                   exitCode>>

\* what the decryption capability can do with an input of a given kind: it
\* rejects a corrupted input (authenticated encryption)
decryptFile(kind) ==
    IF kind = "corrupt" THEN {"fail", "failPartial", "unbound"}
                        ELSE CapabilityOutcomes

\* what the capability can do when handed keys.privateKey: the private key
\* of another pair never decrypts the artifact
decryptFileWithKey(kind, pair) ==
    IF pair = "foreign" THEN {"fail", "failPartial", "unbound"}
                        ELSE decryptFile(kind)

\* mutant: a failed decryption does not stop the pipeline
RestoreDecryptSwallows ==
    /\ pc = "r_decrypt"
    /\ faults' = faults
    /\ IF encryptedBackupPath \notin fs
         THEN UNCHANGED <<fs, calls>>
         ELSE \E o \in decryptFileWithKey(artifact, keyPair) :
              /\ calls' = IF o = "unbound" THEN calls ELSE calls \cup {"decryptFile"}
              /\ fs' = IF Wrote(o) THEN fs \cup {decryptedZipPath} ELSE fs
    /\ pc' = "r_extract"
    /\ UNCHANGED <<opts, lib, attachments, locals, now, log, err, exitCode>>

\* mutant: the capability's error is ignored, only the output file is checked
RestoreDecryptOutputOnly ==
    /\ pc = "r_decrypt"
    /\ faults' = faults
    /\ IF encryptedBackupPath \notin fs
         THEN /\ pc' = "r_finally"
              /\ err' = "Decryption failed"
              /\ UNCHANGED <<fs, calls>>
         ELSE \E o \in decryptFileWithKey(artifact, keyPair) :
              /\ calls' = IF o = "unbound" THEN calls ELSE calls \cup {"decryptFile"}
              /\ fs' = IF Wrote(o) THEN fs \cup {decryptedZipPath} ELSE fs
              /\ IF decryptedZipPath \in fs'
                   THEN pc' = "r_extract" /\ err' = err
                   ELSE pc' = "r_finally" /\ err' = "Decryption failed"
    /\ UNCHANGED <<opts, lib, attachments, locals, now, log, exitCode>>

\* encrypt.js decryptBackupFile: access the input, call the capability,
\* access the output; every failure becomes "Decryption failed"
RestoreDecrypt ==
    /\ pc = "r_decrypt"
    /\ faults' = faults
    /\ IF encryptedBackupPath \notin fs
         THEN /\ pc' = "r_finally"
              /\ err' = "Decryption failed"
              /\ UNCHANGED <<fs, calls>>
         ELSE \E o \in decryptFileWithKey(artifact, keyPair) :
              /\ calls' = IF o = "unbound" THEN calls ELSE calls \cup {"decryptFile"}
              /\ fs' = IF Wrote(o) THEN fs \cup {decryptedZipPath} ELSE fs
              /\ IF Returned(o) /\ decryptedZipPath \in fs'
                   THEN pc' = "r_extract" /\ err' = err
                   ELSE pc' = "r_finally" /\ err' = "Decryption failed"
    /\ UNCHANGED <<opts, lib, attachments, locals, now, log, exitCode>>

\* the entries of the archive inside the encrypted input
ArchiveEntries(kind) ==
    IF kind = "good"
      THEN {Join(extractDir, generateBackupFilename(dbName, "sql", 0))}
      ELSE {Join(extractDir, <<"README", "txt">>)}

\* readdir(outputDir): the direct children of the directory
readdir(dir, files) == {p \in files : Len(p) = Len(dir) + 1 /\ IsUnder(p, dir)}

\* the find predicate of extractZipArchive, lines 25-31
IsDumpFile(p) == \E e \in DumpExtensions : EndsWith(p[Len(p)], e)

\* restore.js extractZipArchive: ensureDirectory, unzip, readdir, find
RestoreExtract ==
    /\ pc = "r_extract"
    /\ calls' = calls \cup {"unzip"}
    /\ faults' = faults
    /\ \E o \in {"ok", "fail", "failPartial"} :
         LET extracted == IF Wrote(o) THEN ArchiveEntries(artifact) ELSE {}
             after == ensureDirectory(extractDir, fs) \cup extracted
             found == {p \in readdir(extractDir, after) : IsDumpFile(p)}
         IN  /\ fs' = after
             /\ IF ~Returned(o)
                  THEN /\ pc' = "r_finally"
                       /\ err' = "Failed to extract archive: unzip failed"
                       /\ dumpFilePath' = dumpFilePath
                  ELSE IF found = {}
                  THEN /\ pc' = "r_finally"
                       /\ err' = "Failed to extract archive: No database dump file found"
                       /\ dumpFilePath' = dumpFilePath
                  ELSE /\ pc' = "r_getProvider"
                       /\ err' = err
                       /\ dumpFilePath' \in found
    /\ UNCHANGED <<opts, lib, attachments, dumpPath, zipPath, zipClosed, now,
                   log, exitCode>>

\* restore.js line 76 and providers/index.js getProvider
RestoreGetProvider ==
    /\ pc = "r_getProvider"
    /\ IF hasProvider(providerName)
         THEN pc' = "r_restoreFromDump" /\ err' = err
         ELSE pc' = "r_finally" /\ err' = "Provider not found"
    /\ UNCHANGED <<opts, lib, attachments, locals, fs, now, calls, faults, log,
                   exitCode>>

\* restore.js line 79: provider.restoreFromDump(dumpFilePath, providerOptions)
RestoreFromDump ==
    /\ pc = "r_restoreFromDump"
    /\ calls' = calls \cup {"restoreFromDump"}
    /\ faults' = faults
    /\ \E restored \in BOOLEAN :
         err' = IF restored THEN err ELSE "restore failed"
    /\ pc' = "r_finally"
    /\ UNCHANGED <<opts, lib, attachments, locals, fs, now, log, exitCode>>

\* mutant: the removal is not recursive
rmShallow(dir, files) == files \ {dir}

\* fs.rm(dir, {recursive, force}) when it succeeds
rmRecursive(dir, files) == {p \in files : ~IsUnder(p, dir)}

\* restore.js lines 83-90: remove workDir; a failure is only warned about,
\* and may have removed some of the content (never workDir itself)
RestoreFinally ==
    /\ pc = "r_finally"
    /\ calls' = calls \cup {"rm"}
    /\ \E rmOk \in BOOLEAN :
         IF rmOk
           THEN /\ fs' = rmRecursive(restoreWorkDir, fs)
                /\ log' = log
                /\ faults' = faults
           ELSE /\ faults' = faults \cup {"rm"}
                /\ \E kept \in SUBSET (fs \ rmRecursive(restoreWorkDir, fs)) :
                     /\ restoreWorkDir \in kept
                     /\ \A p \in kept \ {restoreWorkDir} :
                          SubSeq(p, 1, Len(p) - 1) \in kept
                     /\ fs' = rmRecursive(restoreWorkDir, fs) \cup kept
                /\ log' = log \cup {Line("Warning: Failed to clean up", NoPath)}
    /\ pc' = "r_ended"
    /\ UNCHANGED <<opts, lib, attachments, locals, now, err, exitCode>>

\* restoreFromBackup has ended: it returned, or its rejection reaches the catch
RestoreEnded ==
    /\ pc = "r_ended"
    /\ pc' = IF err = "none" THEN "r_finish" ELSE "r_cliCatch"
    /\ UNCHANGED <<opts, lib, attachments, locals, fs, now, calls, faults, log,
                   err, exitCode>>

\* cli.js lines 582-585
RestoreFinish ==
    /\ pc = "r_finish"
    /\ log' = log \cup {Line("Restore completed", NoPath)}
    /\ exitCode' = "0"
    /\ pc' = "done"
    /\ UNCHANGED <<opts, lib, attachments, locals, fs, now, calls, faults,
                   err>>

\* cli.js lines 586-589
RestoreCliCatch ==
    /\ pc = "r_cliCatch"
    /\ log' = log \cup {Line("Error", << <<err>> >>)}
    /\ exitCode' = "1"
    /\ pc' = "done"
    /\ UNCHANGED <<opts, lib, attachments, locals, fs, now, calls, faults,
                   err>>

(***************************************************************************)
(* Specification                                                           *)
(***************************************************************************)
Next ==
    \/ Tick
    \/ BackupCheckOptions
    \/ BackupLoadKeys
    \/ CreateBackupEnsureDir
    \/ CreateBackupDumpName
    \/ CreateBackupZipName
    \/ DumpIsAvailable
    \/ DumpCreateDump
    \/ DumpVerify
    \/ ZipStart
    \/ ZipClose
    \/ ZipArchiveError
    \/ ZipStreamError
    \/ CreateBackupCatch
    \/ CreateBackupThrew
    \/ EncryptBackupFile
    \/ BackupReportEncrypted
    \/ BackupSendEmail
    \/ BackupCleanup
    \/ BackupFinish
    \/ BackupCliCatch
    \/ RestoreLoadKeys
    \/ RestoreEnsureDir
    \/ RestoreDecrypt
    \/ RestoreExtract
    \/ RestoreGetProvider
    \/ RestoreFromDump
    \/ RestoreFinally
    \/ RestoreEnded
    \/ RestoreFinish
    \/ RestoreCliCatch

Spec == Init /\ [][Next]_vars

(***************************************************************************)
(* Library functions, called on their own.  A call records the function,   *)
(* its arguments and what it returned or threw; no command is running.     *)
(***************************************************************************)
pipeline == <<opts, locals, pc, fs, now, calls, faults, log, err, exitCode,
              attachments>>

NoCommand ==
    /\ cmd = "none"
    /\ pc = "done"
    /\ fs = {}
    /\ now = 0
    /\ keepFiles = FALSE
    /\ cliEmail = "unset"
    /\ cfgEmail = "unset"
    /\ smtpOk = FALSE
    /\ dbNameSet = FALSE
    /\ keysFile = "unset"
    /\ keysInWorkDir = FALSE
    /\ keyPair = "own"
    /\ providerName = "supabase"
    /\ artifact = "absent"
    /\ dumpPath = NoPath
    /\ zipPath = NoPath
    /\ zipClosed = FALSE
    /\ dumpFilePath = NoPath
    /\ calls = {}
    /\ faults = {}
    /\ log = {}
    /\ err = "none"
    /\ exitCode = "running"
    /\ attachments = {}

\* the registry as built at module load, no call made yet
InitRegistry ==
    /\ NoCommand
    /\ providers = InitialProviders
    /\ call = "none"
    /\ args = <<>>
    /\ result = <<>>

\* the call has returned or thrown
HasResult == DOMAIN result # {}

\* a value returned, and an Error thrown with a message
Returns(value) == [threw |-> FALSE, value |-> value]

Throws(message) == [threw |-> TRUE, message |-> message]

(***************************************************************************)
(* utils.js validateRequiredKeys and encrypt.js loadKeys.  A parsed JSON   *)
(* object is the set of its own keys: `key in obj` reads nothing else.     *)
(***************************************************************************)
MaxRequired == 2

\* the largest power of 1024 a byte count handed to formatBytes reaches
MaxPower == 4

ObjectKeys == {"publicKey", "privateKey", "comment"}

ParsedObjects == SUBSET ObjectKeys

RequiredLists ==
    UNION {[1..n -> ObjectKeys] : n \in 0..MaxRequired}

\* mutant: only the first missing key is named
validateRequiredKeysFirst(obj, requiredKeys) ==
    LET missingKeys == SelectSeq(requiredKeys, LAMBDA key : key \notin obj)
    IN  IF Len(missingKeys) > 0
          THEN Throws([text |-> "Missing required keys: ",
                       joined |-> <<Head(missingKeys)>>])
          ELSE Returns("undefined")

\* utils.js lines 77-82; the message is the text followed by
\* missingKeys.join(', '), kept as the sequence that is joined
validateRequiredKeys(obj, requiredKeys) ==
    LET missingKeys == SelectSeq(requiredKeys, LAMBDA key : key \notin obj)
    IN  IF Len(missingKeys) > 0
          THEN Throws([text |-> "Missing required keys: ",
                       joined |-> missingKeys])
          ELSE Returns("undefined")

\* encrypt.js lines 20-27, after readJsonFile has parsed the file
loadKeys(parsed) ==
    LET checked == validateRequiredKeys(parsed, <<"publicKey", "privateKey">>)
    IN  IF checked.threw THEN checked ELSE Returns(parsed)

CallValidateRequiredKeys ==
    /\ call = "validateRequiredKeys"
    /\ ~HasResult
    /\ result' = validateRequiredKeys(args.obj, args.requiredKeys)
    /\ UNCHANGED <<pipeline, providers, call, args>>

CallLoadKeys ==
    /\ call = "loadKeys"
    /\ ~HasResult
    /\ result' = loadKeys(args.obj)
    /\ UNCHANGED <<pipeline, providers, call, args>>

(***************************************************************************)
(* The providers (providers/supabase.js, mongodb.js, mysql.js,             *)
(* postgres.js).  An options or config object is a record of its fields,   *)
(* "undefined" for a field that is absent.                                 *)
(***************************************************************************)
BuiltinProviders ==
    {"supabaseProvider", "mongodbProvider", "mysqlProvider", "postgresProvider"}

UriValues == {"undefined", "mongodb://h", "mongodb+srv://h"}

FieldValues == {"undefined", "x"}

OptionBags ==
    [uri : UriValues, user : FieldValues, database : FieldValues,
     mongodbUri : UriValues, mysqlUser : FieldValues,
     mysqlDatabase : FieldValues, postgresUser : FieldValues,
     postgresDatabase : FieldValues]

\* JavaScript's !value on a string or undefined
Falsy(value) == value \in {"undefined", ""}

\* String.prototype.startsWith('mongodb://')
StartsWithMongodb(value) == value = "mongodb://h"

\* one run of execAsync(cmd): the exit status, whether the tool wrote its
\* output file, and its stderr: empty, holding the word the provider looks
\* for ('Dumping', 'done', 'Warning', 'pg_dump', ...), or any other text
ToolRuns == [exit : {0, 1}, wrote : BOOLEAN, stderr : {"", "expected", "other"}]

\* the `if (!uri)` and `if (!user || !database)` tests of createDump and
\* restoreFromDump; the Supabase provider reads no option
OptionMissing(provider, options) ==
    CASE provider = "mongodbProvider" -> Falsy(options.uri)
      [] provider = "mysqlProvider" ->
            Falsy(options.user) \/ Falsy(options.database)
      [] provider = "postgresProvider" ->
            Falsy(options.user) \/ Falsy(options.database)
      [] OTHER -> FALSE

\* execAsync rejects on a non-zero exit; stderr is only looked at after a
\* zero exit, and only to print a warning
RunTool(tool) ==
    IF tool.exit # 0
      THEN [threw |-> TRUE, invoked |-> TRUE, warned |-> FALSE]
      ELSE [threw |-> FALSE, invoked |-> TRUE, warned |-> tool.stderr = "other"]

\* mutant: the tool is run whatever the options hold
createDumpUnchecked(provider, options, tool) == RunTool(tool)

\* mutant: unexpected stderr text is taken for a failure
createDumpStrict(provider, options, tool) ==
    IF OptionMissing(provider, options)
      THEN [threw |-> TRUE, invoked |-> FALSE, warned |-> FALSE]
      ELSE IF tool.stderr = "other"
             THEN [threw |-> TRUE, invoked |-> TRUE, warned |-> FALSE]
             ELSE RunTool(tool)

\* supabase.js 35-48, mongodb.js 37-66, mysql.js 40-80, postgres.js 41-86
createDump(provider, options, tool) ==
    IF OptionMissing(provider, options)
      THEN [threw |-> TRUE, invoked |-> FALSE, warned |-> FALSE]
      ELSE RunTool(tool)

\* supabase.js 64-77, mongodb.js 121-150, mysql.js 158-195,
\* postgres.js 165-215
restoreFromDump(provider, options, tool) ==
    IF OptionMissing(provider, options)
      THEN [threw |-> TRUE, invoked |-> FALSE, warned |-> FALSE]
      ELSE RunTool(tool)

\* supabase.js 95-102, mongodb.js 101-110, mysql.js 133-145,
\* postgres.js 139-151: the errors pushed, then { valid, errors }
validateConfig(provider, config) ==
    LET errors ==
          CASE provider = "mongodbProvider" ->
                 IF ~Falsy(config.mongodbUri) /\ ~StartsWithMongodb(config.mongodbUri)
                   THEN <<"MongoDB URI must start with mongodb://">>
                   ELSE <<>>
            [] provider = "mysqlProvider" ->
                 (IF Falsy(config.mysqlUser)
                    THEN <<"MySQL user is required">> ELSE <<>>)
                 \o (IF Falsy(config.mysqlDatabase)
                       THEN <<"MySQL database is required">> ELSE <<>>)
            [] provider = "postgresProvider" ->
                 (IF Falsy(config.postgresUser)
                    THEN <<"PostgreSQL user is required">> ELSE <<>>)
                 \o (IF Falsy(config.postgresDatabase)
                       THEN <<"PostgreSQL database is required">> ELSE <<>>)
            [] OTHER -> <<>>
    IN  [valid |-> Len(errors) = 0, errors |-> errors]

\* mutant: the name is looked up as given
getProviderExact(name) ==
    LET provider == MapGet(providers, name)
    IN  IF provider = "undefined"
          THEN Throws([text |-> "Provider not found. Available providers: ",
                       name |-> name,
                       available |-> MapKeys(providers)])
          ELSE Returns(provider)

\* lines 24-33
getProvider(name) ==
    LET provider == MapGet(providers, toLowerCase(name))
    IN  IF provider = "undefined"
          THEN Throws([text |-> "Provider not found. Available providers: ",
                       name |-> name,
                       available |-> MapKeys(providers)])
          ELSE Returns(provider)

\* backup.js dumpDatabase, lines 15-35: look the provider up, ask it whether
\* its tool is installed, create the dump, then access the output file;
\* `existed` tells whether a file was at outputPath before the call
dumpDatabase(name, options, available, tool, existed) ==
    LET provider == getProvider(name)
        failed(invoked) ==
            [threw |-> TRUE, message |-> "Database dump failed: ",
             invoked |-> invoked, warned |-> FALSE]
    IN  IF provider.threw \/ ~available
          THEN failed(FALSE)
          ELSE LET dump == createDump(provider.value, options, tool)
                   accessible == existed \/ (dump.invoked /\ tool.wrote)
               IN  IF dump.threw
                     THEN failed(dump.invoked)
                     ELSE IF ~accessible
                            THEN [failed(TRUE) EXCEPT !.warned = dump.warned]
                            ELSE [threw |-> FALSE, message |-> "",
                                  invoked |-> TRUE, warned |-> dump.warned]

CallDumpDatabase ==
    /\ call = "dumpDatabase"
    /\ ~HasResult
    /\ result' = dumpDatabase(args.providerName, args.options, args.available,
                              args.tool, args.existed)
    /\ UNCHANGED <<pipeline, providers, call, args>>

(***************************************************************************)
(* encrypt.js encryptBackupFile and decryptBackupFile, called directly:    *)
(* `o` is what the capability does when it is invoked ("unbound": the      *)
(* helper module did not load or exports no such function), `existed`      *)
(* whether a file was at outputFile before the call.                       *)
(***************************************************************************)
\* mutant: the input file is not looked at before the capability is invoked
cryptBackupFileNoInputCheck(message, inputExists, existed, o) ==
    IF o = "unbound"
      THEN [threw |-> TRUE, message |-> message, invoked |-> FALSE]
      ELSE IF Returned(o) /\ (existed \/ Wrote(o))
             THEN [threw |-> FALSE, message |-> "", invoked |-> TRUE]
             ELSE [threw |-> TRUE, message |-> message, invoked |-> TRUE]

\* the body shared by the two functions: access the input, await the
\* capability, access the output; whatever throws is rethrown under `message`
cryptBackupFile(message, inputExists, existed, o) ==
    IF ~inputExists \/ o = "unbound"
      THEN [threw |-> TRUE, message |-> message, invoked |-> FALSE]
      ELSE IF Returned(o) /\ (existed \/ Wrote(o))
             THEN [threw |-> FALSE, message |-> "", invoked |-> TRUE]
             ELSE [threw |-> TRUE, message |-> message, invoked |-> TRUE]

\* lines 36-49
encryptBackupFile(inputExists, existed, o) ==
    cryptBackupFile("Encryption failed: ", inputExists, existed, o)

\* lines 58-71
decryptBackupFile(inputExists, existed, o) ==
    cryptBackupFile("Decryption failed: ", inputExists, existed, o)

CallEncryptBackupFile ==
    /\ call = "encryptBackupFile"
    /\ ~HasResult
    /\ result' = encryptBackupFile(args.inputExists, args.existed, args.o)
    /\ UNCHANGED <<pipeline, providers, call, args>>

CallDecryptBackupFile ==
    /\ call = "decryptBackupFile"
    /\ ~HasResult
    /\ result' = decryptBackupFile(args.inputExists, args.existed, args.o)
    /\ UNCHANGED <<pipeline, providers, call, args>>

\* options that hold none of the setup prompts' keys
DumpOptionBags ==
    {bag \in OptionBags :
        \A field \in {"mongodbUri", "mysqlUser", "mysqlDatabase",
                       "postgresUser", "postgresDatabase"} :
            bag[field] = "undefined"}

CallValidateConfig ==
    /\ call = "validateConfig"
    /\ ~HasResult
    /\ result' = validateConfig(args.provider, args.config)
    /\ UNCHANGED <<pipeline, providers, call, args>>

CallCreateDump ==
    /\ call = "createDump"
    /\ ~HasResult
    /\ result' = createDump(args.provider, args.options, args.tool)
    /\ UNCHANGED <<pipeline, providers, call, args>>

CallRestoreFromDump ==
    /\ call = "restoreFromDump"
    /\ ~HasResult
    /\ result' = restoreFromDump(args.provider, args.options, args.tool)
    /\ UNCHANGED <<pipeline, providers, call, args>>

(***************************************************************************)
(* backup.js createZipArchive and restore.js extractZipArchive on files    *)
(* with content.  A file is a record of its path and its bytes; an archive *)
(* is the set of its entries, each a name and the bytes stored under it.   *)
(* The archiver and unzip are taken to store and give back the bytes they  *)
(* are handed.                                                             *)
(***************************************************************************)
FileContents == {"bytes1", "bytes2"}

\* a file left in the extraction directory by something else
StaleDump == [path |-> Join(extractDir, <<"old", "sql">>), content |-> "stale"]

\* backup.js lines 58-60: archive.file(sourceFile, { name: basename })
zipEntries(sourceFile) ==
    {[name |-> sourceFile.path[Len(sourceFile.path)],
      content |-> sourceFile.content]}

\* restore.js lines 13-41: unzip -o into outputDir, readdir, find; the set of
\* what it can return, the order of readdir being the file system's
extractZipArchive(archive, outputDir, before) ==
    LET unzipped == {[path |-> Join(outputDir, entry.name),
                      content |-> entry.content] : entry \in archive}
        kept == {f \in before : \A u \in unzipped : u.path # f.path}
        files == {f \in kept \cup unzipped :
                     /\ Len(f.path) = Len(outputDir) + 1
                     /\ IsUnder(f.path, outputDir)}
        found == {f \in files : IsDumpFile(f.path)}
    IN  IF found = {}
          THEN {Throws("Failed to extract archive: No database dump file found in archive")}
          ELSE {Returns(f) : f \in found}

\* the dump of a provider, compressed and then extracted
CallRoundTrip ==
    /\ call = "roundTrip"
    /\ ~HasResult
    /\ result' \in extractZipArchive(zipEntries(args.dump), extractDir,
                                      IF args.stale THEN {StaleDump} ELSE {})
    /\ UNCHANGED <<pipeline, providers, call, args>>

\* the dump file createBackup names for the provider registered under a key
DumpFiles(key) ==
    {[path |-> Join(backupWorkDir,
                    generateBackupFilename(dbName, getFileExtension(key), t)),
      content |-> c] : t \in 0..MaxClock, c \in FileContents}

(***************************************************************************)
(* utils.js generateTimestamp on the fields of a Date, and the names       *)
(* createBackup and the backup command give to the artifacts.  A string of *)
(* digits is the sequence of its characters.                               *)
(***************************************************************************)
Digit(n) ==
    CASE n = 0 -> "0" [] n = 1 -> "1" [] n = 2 -> "2" [] n = 3 -> "3"
      [] n = 4 -> "4" [] n = 5 -> "5" [] n = 6 -> "6" [] n = 7 -> "7"
      [] n = 8 -> "8" [] OTHER -> "9"

\* String(n) of a natural number
RECURSIVE String(_)
String(n) == IF n < 10 THEN <<Digit(n)>> ELSE Append(String(n \div 10), Digit(n % 10))

\* mutant: nothing is prepended
padStartNone(str, targetLength, fill) == str

\* String.prototype.padStart with a one-character fill
RECURSIVE padStart(_, _, _)
padStart(str, targetLength, fill) ==
    IF Len(str) >= targetLength THEN str
                                ELSE padStart(<<fill>> \o str, targetLength, fill)

\* the local-time fields of `new Date()`, getMonth() counting from 0
Dates ==
    [year : {2026}, month : {0, 8, 9, 11}, date : {1, 9, 31},
     hours : {0, 7, 23}, minutes : {0, 59}, seconds : {5, 10}]

\* utils.js lines 8-18 on those fields
formatTimestamp(d) ==
    String(d.year) \o padStart(String(d.month + 1), 2, "0")
        \o padStart(String(d.date), 2, "0") \o <<"-">>
        \o padStart(String(d.hours), 2, "0")
        \o padStart(String(d.minutes), 2, "0")
        \o padStart(String(d.seconds), 2, "0")

CallGenerateTimestamp ==
    /\ call = "generateTimestamp"
    /\ ~HasResult
    /\ result' = Returns(formatTimestamp(args.date))
    /\ UNCHANGED <<pipeline, providers, call, args>>

\* the default value of generateBackupFilename's second parameter
extensionOrDefault(extension) ==
    IF extension = "undefined" THEN "sql" ELSE extension

DbNames == {"db", "my-test_db.prod"}

CallGenerateBackupFilename ==
    /\ call = "generateBackupFilename"
    /\ ~HasResult
    /\ result' = Returns(generateBackupFilename(
                             args.dbName, extensionOrDefault(args.extension), args.t))
    /\ UNCHANGED <<pipeline, providers, call, args>>

\* backup.js lines 80-88 and cli.js line 435: the three paths of a run whose
\* two file names are generated at clock readings t1 and t2
artifactNames(name, db, workDir, t1, t2) ==
    LET provider == getProvider(name)
        zip == Join(workDir, generateBackupFilename(db, "zip", t2))
    IN  IF provider.threw
          THEN provider
          ELSE Returns(
                 [dumpFile |-> Join(workDir,
                      generateBackupFilename(
                          db, getFileExtension(toLowerCase(name)), t1)),
                  zipFile |-> zip,
                  encryptedFile |-> WithSuffix(zip, "encrypted")])

CallArtifactNames ==
    /\ call = "artifactNames"
    /\ ~HasResult
    /\ result' = artifactNames(args.providerName, args.dbName, backupWorkDir,
                               args.t1, args.t2)
    /\ UNCHANGED <<pipeline, providers, call, args>>

(***************************************************************************)
(* config.js mergeConfig.  A value is "undefined" when it is not given;    *)
(* every given value carries the name of where it was given; the saved     *)
(* booleans are written "TRUE" and "FALSE".                                *)
(***************************************************************************)
\* JavaScript's a || b on strings, "undefined" and "" being falsy
Or(a, b) == IF Falsy(a) THEN b ELSE a

\* parseInt(value, 10) on the port texts that occur; 0 stands for NaN
parseInt(value) ==
    CASE value = "2525" -> 2525
      [] value = "465" -> 465
      [] value = "587" -> 587
      [] OTHER -> 0

CliOptions ==
    [email : {"undefined", "cli-email"}, keys : {"undefined", "cli-keys"},
     dbName : {"undefined", "cli-db"}, workDir : {"undefined", "cli-dir"}]

SavedConfigs ==
    [defaultEmail : {"undefined", "saved-email"}, keysPath : {"saved-keys"},
     defaultDbName : {"saved-db"}, workDir : {"undefined", "saved-dir"},
     host : {"undefined", "saved-host"}, port : {"undefined", "465"},
     secure : {"undefined", "TRUE", "FALSE"}, user : {"undefined", "saved-user"},
     pass : {"undefined", "saved-pass"}]

Environments ==
    [SMTP_HOST : {"undefined", "env-host"},
     SMTP_PORT : {"undefined", "2525", "abc"},
     SMTP_SECURE : {"undefined", "true", "false"},
     SMTP_USER : {"undefined", "env-user"},
     SMTP_PASS : {"undefined", "env-pass"}]

\* lines 94-113
mergeConfig(options, config, env) ==
    [email |-> Or(options.email, Or(config.defaultEmail, "null")),
     keys |-> Or(options.keys, Or(config.keysPath, "null")),
     dbName |-> Or(options.dbName, Or(config.defaultDbName, "null")),
     workDir |-> Or(options.workDir, Or(config.workDir, "./backups")),
     smtp |->
       [host |-> Or(env.SMTP_HOST, Or(config.host, "smtp.gmail.com")),
        port |-> LET parsed == parseInt(Or(env.SMTP_PORT, Or(config.port, "587")))
                 IN  IF parsed = 0 THEN 587 ELSE parsed,
        secure |-> env.SMTP_SECURE = "true" \/ config.secure = "TRUE",
        user |-> Or(env.SMTP_USER, Or(config.user, "null")),
        pass |-> Or(env.SMTP_PASS, Or(config.pass, "null"))]]

CallMergeConfig ==
    /\ call = "mergeConfig"
    /\ ~HasResult
    /\ result' = Returns(mergeConfig(args.options, args.config, args.env))
    /\ UNCHANGED <<pipeline, providers, call, args>>

(***************************************************************************)
(* config.js saveConfig.  A permission mode is the set of its bits, named  *)
(* by who ("u", "g", "o") and what ("r", "w").                             *)
(***************************************************************************)
Mode0600 == {"ur", "uw"}

Mode0644 == {"ur", "uw", "gr", "or"}

Mode0666 == {"ur", "uw", "gr", "gw", "or", "ow"}

Mode0400 == {"ur"}

Umask022 == {"gw", "ow"}

Umask077 == {"gr", "gw", "or", "ow"}

\* fs.writeFile(path, data, { mode }): open with O_WRONLY | O_CREAT |
\* O_TRUNC; the mode, less the umask, is given to a file that is created and
\* ignored for a file that exists; "absent" is the mode of no file
writeFile(existing, mode, umask) ==
    IF existing = {"absent"} THEN Returns(mode \ umask)
    ELSE IF "uw" \notin existing THEN Throws("EACCES")
    ELSE Returns(existing)

\* lines 52-68: the mode of the configuration file after the call
saveConfig(existing, umask) ==
    LET written == writeFile(existing, Mode0600, umask)
    IN  IF written.threw THEN Throws("Failed to save config: ") ELSE written

CallSaveConfig ==
    /\ call = "saveConfig"
    /\ ~HasResult
    /\ result' = saveConfig(args.existing, args.umask)
    /\ UNCHANGED <<pipeline, providers, call, args>>

(***************************************************************************)
(* The PostgreSQL provider's createDump and restoreFromDump with the        *)
(* command line and the environment they hand to execAsync.  A command line *)
(* is the sequence of its words before join(' '), each word the sequence of *)
(* the template's text and the values put into it; an environment maps     *)
(* variable names to values, "undefined" for a variable that is not set.    *)
(***************************************************************************)
\* process.env of the host process
ProcessEnvs == [PATH : {"/usr/bin"}, PGPASSWORD : {"undefined", "hostpw"}]

PostgresOptions ==
    [host : {"undefined", "db.example"}, port : {"undefined", "6543"},
     user : {"undefined", "alice"}, password : {"undefined", "", "s3cret"},
     database : {"undefined", "shop"}, format : {"undefined", "plain"},
     clean : {"undefined", "FALSE", "TRUE"}]

\* a destructuring default: it applies to undefined only
OrDefault(value, default) == IF value = "undefined" THEN default ELSE value

\* JavaScript's truthiness of the option values that occur
Truthy(value) == value \notin {"undefined", "", "FALSE"}

\* mutant: the child gets the host's environment as it is
childEnvNoPassword(processEnv, password) == processEnv

\* { ...process.env, ...(password && { PGPASSWORD: password }) }
childEnv(processEnv, password) ==
    IF Truthy(password) THEN [processEnv EXCEPT !.PGPASSWORD = password]
                        ELSE processEnv

\* Array.prototype.filter(Boolean) on words: '' is dropped
filterBoolean(words) == SelectSeq(words, LAMBDA w : w # <<"">>)

\* what one call leaves behind: its outcome, the command line and the
\* environment execAsync was given (none when it was not reached), and
\* process.env after the call
PostgresRun(prefix, required, cmdLine, processEnv, password, tool) ==
    IF required # ""
      THEN [threw |-> TRUE, message |-> prefix \o required, ran |-> FALSE,
            cmdLine |-> << >>, env |-> processEnv, processEnv |-> processEnv]
      ELSE [threw |-> tool.exit # 0,
            message |-> IF tool.exit # 0 THEN prefix \o "Command failed" ELSE "",
            ran |-> TRUE, cmdLine |-> cmdLine,
            env |-> childEnv(processEnv, password), processEnv |-> processEnv]

\* PostgreSQLProvider.createDump
PostgreSQLCreateDump(outputPath, options, processEnv, tool) ==
    LET host == OrDefault(options.host, "localhost")
        port == OrDefault(options.port, "5432")
        format == OrDefault(options.format, "custom")
    IN  PostgresRun("PostgreSQL dump failed: ",
            IF Falsy(options.user) \/ Falsy(options.database)
              THEN "PostgreSQL user and database are required" ELSE "",
            << <<"pg_dump">>, <<"--host=", host>>, <<"--port=", port>>,
               <<"--username=", options.user>>, <<"--format=", format>>,
               <<"--verbose">>, <<"--no-owner">>, <<"--no-acl">>,
               <<"--file=", outputPath>>, <<options.database>> >>,
            processEnv, options.password, tool)

\* PostgreSQLProvider.restoreFromDump
PostgreSQLRestoreFromDump(dumpFile, options, processEnv, tool) ==
    LET host == OrDefault(options.host, "localhost")
        port == OrDefault(options.port, "5432")
        clean == OrDefault(options.clean, "FALSE")
    IN  PostgresRun("PostgreSQL restore failed: ",
            IF Falsy(options.user) \/ Falsy(options.database)
              THEN "PostgreSQL user and database are required for restore"
              ELSE "",
            filterBoolean(
              << <<"pg_restore">>, <<"--host=", host>>, <<"--port=", port>>,
                 <<"--username=", options.user>>,
                 <<"--dbname=", options.database>>,
                 <<"--verbose">>, <<"--no-owner">>, <<"--no-acl">>,
                 IF Truthy(clean) THEN <<"--clean">> ELSE <<"">>,
                 <<"--if-exists">>, <<dumpFile>> >>),
            processEnv, options.password, tool)

CallPostgreSQLCreateDump ==
    /\ call = "PostgreSQLProvider.createDump"
    /\ ~HasResult
    /\ result' = PostgreSQLCreateDump(args.path, args.options,
                                       args.processEnv, args.tool)
    /\ UNCHANGED <<pipeline, providers, call, args>>

CallPostgreSQLRestoreFromDump ==
    /\ call = "PostgreSQLProvider.restoreFromDump"
    /\ ~HasResult
    /\ result' = PostgreSQLRestoreFromDump(args.path, args.options,
                                            args.processEnv, args.tool)
    /\ UNCHANGED <<pipeline, providers, call, args>>

(***************************************************************************)
(* The backup command of the command line interface: the options it        *)
(* declares to commander, and the call of createBackup its action makes.   *)
(* argv maps each option that can be typed to its value, "undefined" when   *)
(* it is not on the command line.                                          *)
(***************************************************************************)
\* the long flags declared for `backup`
BackupCommandOptions ==
    {"email", "keys", "dbName", "workDir", "keepFiles", "noEmail"}

BackupArgvs ==
    [dbName : {"shop"},
     provider : {"undefined", "supabase", "mongodb", "mysql", "postgres"},
     uri : {"undefined", "mongodb://h"}, user : {"undefined", "alice"}]

\* commander ends the process on an option the command does not declare;
\* otherwise the action calls createBackup(config.dbName, config.workDir),
\* whose providerName and providerOptions parameters take their defaults
backupCommand(argv) ==
    LET typed == {o \in DOMAIN argv : argv[o] # "undefined"}
    IN  IF typed \ BackupCommandOptions # {}
          THEN Throws("unknown option")
          ELSE Returns([dbName |-> argv.dbName, providerName |-> "supabase",
                        providerOptions |-> [uri |-> "undefined",
                                             user |-> "undefined"]])

CallBackupCommand ==
    /\ call = "backupCommand"
    /\ ~HasResult
    /\ result' = backupCommand(args)
    /\ UNCHANGED <<pipeline, providers, call, args>>

(***************************************************************************)
(* The email step of the backup command: the SMTP_* variables it writes    *)
(* into process.env from the merged configuration, and the transport       *)
(* settings createTransporter then reads back from process.env.            *)
(***************************************************************************)
\* process.env before the command; "" is a variable set to the empty string
SmtpEnvironments ==
    [SMTP_HOST : {"undefined", "", "env-host"}, SMTP_PORT : {"undefined", "2525"},
     SMTP_SECURE : {"undefined", "true", "false"},
     SMTP_USER : {"undefined", "", "env-user"},
     SMTP_PASS : {"undefined", "env-pass"}]

\* mutant: the configuration is written over the environment
setSmtpEnvAlways(env, smtp) ==
    [SMTP_USER |-> smtp.user, SMTP_PASS |-> smtp.pass, SMTP_HOST |-> smtp.host,
     SMTP_PORT |-> CASE smtp.port = 2525 -> "2525" [] smtp.port = 465 -> "465"
                     [] OTHER -> "587",
     SMTP_SECURE |-> IF smtp.secure THEN "true" ELSE "false"]

\* restore.js lines 451-458: if (!process.env.X) process.env.X = ...
setSmtpEnv(env, smtp) ==
    [SMTP_USER |-> Or(env.SMTP_USER, smtp.user),
     SMTP_PASS |-> Or(env.SMTP_PASS, smtp.pass),
     SMTP_HOST |-> Or(env.SMTP_HOST, smtp.host),
     SMTP_PORT |-> Or(env.SMTP_PORT,
                      CASE smtp.port = 2525 -> "2525" [] smtp.port = 465 -> "465"
                        [] OTHER -> "587"),
     SMTP_SECURE |-> Or(env.SMTP_SECURE, IF smtp.secure THEN "true" ELSE "false")]

\* restore.js lines 100-118: the transport settings read from process.env
createTransporter(env) ==
    IF Falsy(env.SMTP_USER) \/ Falsy(env.SMTP_PASS)
      THEN Throws("SMTP credentials not found")
      ELSE Returns([host |-> Or(env.SMTP_HOST, "smtp.gmail.com"),
                    port |-> parseInt(Or(env.SMTP_PORT, "587")),
                    secure |-> env.SMTP_SECURE = "true",
                    user |-> env.SMTP_USER, pass |-> env.SMTP_PASS,
                    env |-> env])

\* the backup action from mergeConfig to sendBackupEmail, with a recipient
\* and no option on the command line: lines 390, 410-416, 451-458 and 460
CallSendBackupEmail ==
    /\ call = "sendBackupEmail"
    /\ ~HasResult
    /\ LET config == mergeConfig([email |-> "undefined", keys |-> "undefined",
                                   dbName |-> "undefined", workDir |-> "undefined"],
                                  args.config, args.env)
       IN  result' = IF config.smtp.user = "null" \/ config.smtp.pass = "null"
                       THEN Throws("SMTP not configured")
                       ELSE createTransporter(setSmtpEnv(args.env, config.smtp))
    /\ UNCHANGED <<pipeline, providers, call, args>>

(***************************************************************************)
(* formatBytes.  A byte count is written in base 1024, most significant     *)
(* digit first: <<1, 512>> is 1536 and <<1, 0, 0>> is 1048576.  The counts  *)
(* drawn have at most three significant digits, followed by zeros, so that  *)
(* every quotient and its rounding to hundredths is computed exactly.       *)
(***************************************************************************)
ByteCounts ==
    {<<0>>} \cup
    {<<d1>> \o tail \o [j \in 1..z |-> 0] :
        d1 \in {1, 500, 1023},
        tail \in {<< >>} \cup {<<d2>> : d2 \in {0, 512, 1023}}
                  \cup {<<d2, d3>> : d2 \in {0, 5, 512, 1023}, d3 \in {0, 256, 1023}},
        z \in 0..MaxPower}

\* part_006 lines 88-96.  Math.floor(Math.log(bytes) / Math.log(k)) is the
\* position of the leading digit; bytes / Math.pow(k, i) is the leading
\* digit and the fraction the next two digits make; toFixed(2) rounds it to
\* hundredths, half up; sizes[i] is undefined beyond the last unit
formatBytes(bytes) ==
    IF bytes = <<0>> THEN [whole |-> 0, hundredths |-> 0, unit |-> "Bytes"]
    ELSE
      LET sizes == <<"Bytes", "KB", "MB", "GB">>
          i == Len(bytes) - 1
          d2 == IF Len(bytes) >= 2 THEN bytes[2] ELSE 0
          d3 == IF Len(bytes) >= 3 THEN bytes[3] ELSE 0
          rounded == (200 * (d2 * 1024 + d3) + 1024 * 1024) \div (2 * 1024 * 1024)
      IN  [whole |-> IF rounded = 100 THEN bytes[1] + 1 ELSE bytes[1],
           hundredths |-> IF rounded = 100 THEN 0 ELSE rounded,
           unit |-> IF i + 1 \in DOMAIN sizes THEN sizes[i + 1] ELSE "undefined"]

CallFormatBytes ==
    /\ call = "formatBytes"
    /\ ~HasResult
    /\ result' = Returns(formatBytes(args.bytes))
    /\ UNCHANGED <<pipeline, providers, call, args>>

\* the library functions are called directly, each with arguments of its own
InitLibrary ==
    /\ NoCommand
    /\ providers = InitialProviders
    /\ result = <<>>
    /\ \/ /\ call \in {"validateRequiredKeys"}
          /\ args \in [obj : ParsedObjects, requiredKeys : RequiredLists]
       \/ /\ call \in {"loadKeys"}
          /\ args \in [obj : ParsedObjects,
                        requiredKeys : {<<"publicKey", "privateKey">>}]
       \/ /\ call \in {"validateConfig"}
          /\ args \in [provider : BuiltinProviders, config : OptionBags]
       \/ /\ call \in {"createDump", "restoreFromDump"}
          /\ args \in [provider : BuiltinProviders, options : OptionBags,
                        tool : ToolRuns]
       \/ /\ call \in {"dumpDatabase"}
          /\ args \in [providerName : {"supabase", "MongoDB", "mysql", "oracle"},
                        options : DumpOptionBags, available : BOOLEAN,
                        tool : ToolRuns, existed : BOOLEAN]
       \/ /\ call \in {"encryptBackupFile", "decryptBackupFile"}
          /\ args \in [inputExists : BOOLEAN, existed : BOOLEAN,
                        o : CapabilityOutcomes]
       \/ /\ call \in {"roundTrip"}
          /\ \E key \in RegisteredProviders :
               args \in [provider : {key}, dump : DumpFiles(key),
                         stale : BOOLEAN]
       \/ /\ call \in {"generateTimestamp"}
          /\ args \in [date : Dates]
       \/ /\ call \in {"generateBackupFilename"}
          /\ args \in [dbName : DbNames,
                        extension : {"undefined", "sql", "zip", "dump"},
                        t : 0..MaxClock]
       \/ /\ call \in {"artifactNames"}
          /\ args \in [providerName : {"supabase", "MongoDB", "mysql",
                                        "POSTGRES", "postgresql"},
                        dbName : DbNames, t1 : 0..MaxClock, t2 : 0..MaxClock]
       \/ /\ call \in {"mergeConfig"}
          /\ args \in [options : CliOptions, config : SavedConfigs,
                        env : Environments]
       \/ /\ call \in {"saveConfig"}
          /\ args \in [existing : {{"absent"}, Mode0600, Mode0644, Mode0666,
                                    Mode0400},
                        umask : {{}, Umask022, Umask077}]
       \/ /\ call \in {"PostgreSQLProvider.createDump"}
          /\ args \in [path : {"backup.dump"},
                        options : {o \in PostgresOptions : o.clean = "undefined"},
                        processEnv : ProcessEnvs,
                        tool : {t \in ToolRuns : t.wrote /\ t.stderr = ""}]
       \/ /\ call \in {"PostgreSQLProvider.restoreFromDump"}
          /\ args \in [path : {"backup.dump"},
                        options : {o \in PostgresOptions : o.format = "undefined"},
                        processEnv : ProcessEnvs,
                        tool : {t \in ToolRuns : t.wrote /\ t.stderr = ""}]
       \/ /\ call \in {"backupCommand"}
          /\ args \in BackupArgvs
       \/ /\ call \in {"sendBackupEmail"}
          /\ args \in [config : {c \in SavedConfigs :
                                    /\ c.defaultEmail = "saved-email"
                                    /\ c.workDir = "undefined"},
                        env : SmtpEnvironments]
       \/ /\ call \in {"formatBytes"}
          /\ args \in [bytes : {b \in ByteCounts : Len(b) <= MaxPower + 1}]

NextLibrary ==
    \/ CallValidateRequiredKeys
    \/ CallLoadKeys
    \/ CallValidateConfig
    \/ CallCreateDump
    \/ CallRestoreFromDump
    \/ CallDumpDatabase
    \/ CallEncryptBackupFile
    \/ CallDecryptBackupFile
    \/ CallRoundTrip
    \/ CallGenerateTimestamp
    \/ CallGenerateBackupFilename
    \/ CallArtifactNames
    \/ CallMergeConfig
    \/ CallSaveConfig
    \/ CallPostgreSQLCreateDump
    \/ CallPostgreSQLRestoreFromDump
    \/ CallBackupCommand
    \/ CallSendBackupEmail
    \/ CallFormatBytes

SpecLibrary == InitLibrary /\ [][NextLibrary]_vars

(***************************************************************************)
(* providers/index.js: the registry, looked up and extended at run time    *)
(***************************************************************************)
\* names a caller may pass, in several letter cases
ProviderNames ==
    {"supabase", "Supabase", "SUPABASE", "mongodb", "MongoDB", "mysql",
     "MySQL", "postgres", "POSTGRES", "postgresql", "PostgreSQL", "oracle",
     "Oracle", "sqlite"}

\* names and provider objects handed to registerProvider
RegisteredNames == {"supabase", "MySQL", "Oracle"}

ProviderObjects == {"customProvider", "mysqlProvider"}

CallGetProvider ==
    \E name \in ProviderNames :
        /\ call' = "getProvider"
        /\ args' = [name |-> name]
        /\ result' = getProvider(name)
        /\ UNCHANGED <<pipeline, providers>>

\* lines 65-67
registerProvider(name, provider) == MapSet(providers, toLowerCase(name), provider)

CallRegisterProvider ==
    \E name \in RegisteredNames, provider \in ProviderObjects :
        /\ call' = "registerProvider"
        /\ args' = [name |-> name, provider |-> provider]
        /\ providers' = registerProvider(name, provider)
        /\ result' = Returns("undefined")
        /\ UNCHANGED pipeline

NextRegistry ==
    \/ CallGetProvider
    \/ CallRegisterProvider

SpecRegistry == InitRegistry /\ [][NextRegistry]_vars

(***************************************************************************)
(* Two pipeline invocations at once.  createBackup and restoreFromBackup   *)
(* are async functions: each await is a point where the other invocation,  *)
(* in the same process or in another one, can run.  args holds what each   *)
(* invocation was called with and the stage at which its tool or           *)
(* capability fails, result what it has reached, fs the one file system    *)
(* both work on; faults records a step that removes or writes over a path  *)
(* the other invocation created.                                           *)
(***************************************************************************)
Invocations == {1, 2}

Other(self) == 3 - self

\* the working directories the callers pass: the two defaults and a
\* directory inside the second
WorkDirs == {backupWorkDir, restoreWorkDir, Join(restoreWorkDir, <<"nested">>)}

Stages(kind) ==
    IF kind = "createBackup" THEN {"none", "dump", "zip"}
                             ELSE {"none", "decrypt", "extract", "restore"}

InitConcurrent ==
    /\ NoCommand
    /\ providers = InitialProviders
    /\ call = "concurrent"
    /\ args \in [Invocations ->
                   [kind : {"createBackup", "restoreFromBackup"},
                    workDir : WorkDirs,
                    failAt : {"none", "dump", "zip", "decrypt", "extract", "restore"}]]
    /\ \A i \in Invocations : args[i].failAt \in Stages(args[i].kind)
    /\ result = [i \in Invocations |->
                   [pc |-> "ensureDirectory", dumpPath |-> NoPath,
                    zipPath |-> NoPath, dumpFilePath |-> NoPath,
                    err |-> "none", created |-> {}]]

\* the paths of `paths` that only the other invocation has created
Foreign(self, paths) ==
    (paths \cap result[Other(self)].created) \ result[self].created

\* one step of an invocation: its new record, the new file system, and the
\* paths it removed or wrote
Step(self, record, files, touched) ==
    /\ result' = [result EXCEPT ![self] = record]
    /\ fs' = files
    /\ faults' = IF Foreign(self, touched) = {} THEN faults
                 ELSE faults \cup {[by |-> self, paths |-> Foreign(self, touched)]}
    /\ UNCHANGED <<opts, locals, pc, now, calls, log, err, exitCode,
                   attachments, providers, call, args>>

\* backup.js line 78 and restore.js line 59: ensureDirectory(workDir), whose
\* mkdir is recursive and makes the parents that are missing
InvEnsureDirectory(self) ==
    /\ result[self].pc = "ensureDirectory"
    /\ LET dir == args[self].workDir
           made == {SubSeq(dir, 1, k) : k \in 1..Len(dir)} \ fs
       IN  Step(self,
                [result[self] EXCEPT
                   !.pc = IF args[self].kind = "createBackup" THEN "names"
                                                              ELSE "decrypt",
                   !.created = @ \cup made],
                ensureDirectory(dir, fs) \cup made, {})

\* backup.js lines 84-88: two readings of the clock
InvGenerateFilenames(self) ==
    /\ result[self].pc = "names"
    /\ \E t \in {now, now + 1} \cap (0..MaxClock) :
         Step(self,
              [result[self] EXCEPT
                 !.pc = "dumpDatabase",
                 !.dumpPath = Join(args[self].workDir,
                                   generateBackupFilename(dbName, "sql", now)),
                 !.zipPath = Join(args[self].workDir,
                                  generateBackupFilename(dbName, "zip", t))],
              fs, {})

\* backup.js line 92: dumpDatabase writes the dump file, or throws when the
\* tool fails or the directory is gone
InvDumpDatabase(self) ==
    /\ result[self].pc = "dumpDatabase"
    /\ IF args[self].failAt = "dump" \/ args[self].workDir \notin fs
         THEN Step(self, [result[self] EXCEPT !.pc = "catch",
                                               !.err = "Database dump failed"],
                   fs, {})
         ELSE Step(self, [result[self] EXCEPT
                            !.pc = "createZipArchive",
                            !.created = @ \cup {result[self].dumpPath}],
                   fs \cup {result[self].dumpPath}, {result[self].dumpPath})

\* backup.js line 95: createZipArchive opens the archive for writing and
\* reads the dump file; a dump file that is gone is an archiver error
InvCreateZipArchive(self) ==
    /\ result[self].pc = "createZipArchive"
    /\ IF args[self].workDir \notin fs
         THEN Step(self, [result[self] EXCEPT
                            !.pc = "catch", !.err = "ZIP creation failed"],
                   fs, {})
         ELSE IF args[self].failAt = "zip" \/ result[self].dumpPath \notin fs
         THEN Step(self, [result[self] EXCEPT
                            !.pc = "catch", !.err = "ZIP creation failed",
                            !.created = @ \cup {result[self].zipPath}],
                   fs \cup {result[self].zipPath}, {result[self].zipPath})
         ELSE Step(self, [result[self] EXCEPT
                            !.pc = "returned",
                            !.created = @ \cup {result[self].zipPath}],
                   fs \cup {result[self].zipPath}, {result[self].zipPath})

\* backup.js lines 101-111: unlink dumpPath and zipPath, then rethrow
InvCreateBackupCatch(self) ==
    /\ result[self].pc = "catch"
    /\ Step(self, [result[self] EXCEPT !.pc = "threw"],
            unlink(result[self].zipPath, TRUE,
                   unlink(result[self].dumpPath, TRUE, fs)),
            {result[self].dumpPath, result[self].zipPath} \cap fs)

\* restore.js line 67: decryptBackupFile writes workDir/decrypted-backup.zip;
\* it throws when the capability fails or the directory is gone
InvDecryptBackupFile(self) ==
    /\ result[self].pc = "decrypt"
    /\ LET zip == Join(args[self].workDir, <<"decrypted-backup", "zip">>)
       IN  IF args[self].failAt = "decrypt" \/ args[self].workDir \notin fs
             THEN Step(self, [result[self] EXCEPT !.pc = "finally",
                                                   !.err = "Decryption failed"],
                       fs, {})
             ELSE Step(self, [result[self] EXCEPT !.pc = "extract",
                                                   !.zipPath = zip,
                                                   !.created = @ \cup {zip}],
                       fs \cup {zip}, {zip})

\* restore.js lines 13-41 and 72: ensureDirectory(extractDir), unzip -o, readdir
\* and find; unzip fails on an archive that is gone
InvExtractZipArchive(self) ==
    /\ result[self].pc = "extract"
    /\ LET dir == Join(args[self].workDir, <<"extracted">>)
           dump == Join(dir, generateBackupFilename(dbName, "sql", 0))
           made == {args[self].workDir, dir} \ fs
       IN  IF args[self].failAt = "extract" \/ result[self].zipPath \notin fs
             THEN Step(self, [result[self] EXCEPT
                                !.pc = "finally",
                                !.err = "Failed to extract archive",
                                !.created = @ \cup made],
                       fs \cup {args[self].workDir, dir}, {})
             ELSE Step(self, [result[self] EXCEPT
                                !.pc = "restoreFromDump",
                                !.dumpFilePath = dump,
                                !.created = @ \cup made \cup {dump}],
                       fs \cup {args[self].workDir, dir, dump}, {dump})

\* restore.js line 78: the provider's tool reads the extracted dump
InvRestoreFromDump(self) ==
    /\ result[self].pc = "restoreFromDump"
    /\ Step(self,
            [result[self] EXCEPT
               !.pc = "finally",
               !.err = IF args[self].failAt = "restore"
                          \/ result[self].dumpFilePath \notin fs
                         THEN "restore failed" ELSE "none"],
            fs, {})

\* restore.js lines 83-90: fs.rm(workDir, { recursive: true, force: true })
InvRestoreFinally(self) ==
    /\ result[self].pc = "finally"
    /\ Step(self,
            [result[self] EXCEPT
               !.pc = IF result[self].err = "none" THEN "returned" ELSE "threw"],
            rmRecursive(args[self].workDir, fs),
            {p \in fs : IsUnder(p, args[self].workDir)})

NextConcurrent ==
    \/ Tick
    \/ \E self \in Invocations :
         \/ InvEnsureDirectory(self)
         \/ InvGenerateFilenames(self)
         \/ InvDumpDatabase(self)
         \/ InvCreateZipArchive(self)
         \/ InvCreateBackupCatch(self)
         \/ InvDecryptBackupFile(self)
         \/ InvExtractZipArchive(self)
         \/ InvRestoreFromDump(self)
         \/ InvRestoreFinally(self)

SpecConcurrent == InitConcurrent /\ [][NextConcurrent]_vars

(***************************************************************************)
(* Properties                                                              *)
(***************************************************************************)
\* restoreFromBackup has run its finally block: it has returned or thrown
RestoreHasEnded == cmd = "restore" /\ "rm" \in calls

WorkDirAbsent == \A p \in fs : ~IsUnder(p, restoreWorkDir)

\* C1 as stated: after restoreFromBackup ends, normally or by a throw of the
\* decrypt, extract, provider-lookup or restoreFromDump step, nothing of
\* workDir (the directory, the decrypted archive, 'extracted') exists.
C1_WorkDirRemoved == RestoreHasEnded => WorkDirAbsent

\* C1 amended: after restoreFromBackup ends, normally or by a throw, nothing
\* of workDir exists unless the recursive removal itself failed (which the
\* finally block only warns about).
C1_WorkDirRemovedUnlessRmFails ==
    RestoreHasEnded /\ "rm" \notin faults => WorkDirAbsent

C1_Witness ==
    /\ pc = "r_ended"
    /\ err = "restore failed"
    /\ "rm" \notin faults
    /\ WorkDirAbsent

\* C2 as stated: when createBackup throws because its dump or archive step
\* failed, neither the dump file nor the zip file exists, and no encrypted
\* artifact has been created.
C2_NoLeftoverOnThrow ==
    pc = "b_threw" =>
        /\ dumpPath \notin fs
        /\ zipPath \notin fs
        /\ encryptedFile \notin fs
        /\ "encryptFile" \notin calls

\* C2 amended: when createBackup throws because its dump or archive step
\* failed, the dump file (the zip file) exists only if its unlink in the catch
\* block failed, and no encrypted artifact has been created.
C2_NoLeftoverUnlessUnlinkFails ==
    pc = "b_threw" =>
        /\ dumpPath \in fs => "unlinkDump" \in faults
        /\ zipPath \in fs => "unlinkZip" \in faults
        /\ encryptedFile \notin fs
        /\ "encryptFile" \notin calls

C2_Witness ==
    /\ pc = "b_threw"
    /\ err = "ZIP creation failed"
    /\ faults = {}
    /\ dumpPath \notin fs
    /\ zipPath \notin fs

\* C3 as stated: when the encrypt step fails after the dump and archive steps
\* succeeded, the dump and the archive of the invocation are deleted before
\* the invocation ends.
C3_IntermediatesDeletedOnEncryptFailure ==
    pc = "done" /\ err = "Encryption failed" =>
        dumpPath \notin fs /\ zipPath \notin fs

\* C4: once the encrypted artifact exists, every later step of the backup
\* invocation leaves it in place.
C4_EncryptedNeverDeleted ==
    [][(encryptedFile \in fs) => (encryptedFile' \in fs')]_vars

C4_Witness ==
    /\ pc = "done"
    /\ err = "Failed to send email"
    /\ encryptedFile \in fs

\* C5: after a backup in which every step succeeded the encrypted artifact
\* exists, the dump and the zip exist exactly when keepFiles is set, and
\* without keepFiles the encrypted artifact is the only file of the run.
C5_SuccessLeavesEncryptedOnly ==
    cmd = "backup" /\ pc = "done" /\ exitCode = "0" =>
        /\ encryptedFile \in fs
        /\ dumpPath \in fs <=> keepFiles
        /\ zipPath \in fs <=> keepFiles
        /\ ~keepFiles =>
             {p \in fs : IsUnder(p, backupWorkDir)} \ {backupWorkDir}
                 = {encryptedFile}

C5_Witness ==
    /\ cmd = "backup"
    /\ pc = "done"
    /\ exitCode = "0"
    /\ ~keepFiles
    /\ "sendMail" \in calls

\* C6 as stated: with keepFiles unset, a backup whose email delivery failed
\* has deleted the dump and the archive by the time it ends.
C6_IntermediatesDeletedOnDeliveryFailure ==
    pc = "done" /\ ~keepFiles /\ err = "Failed to send email" =>
        dumpPath \notin fs /\ zipPath \notin fs

\* the error messages of the failures that leave no encrypted artifact
TotalFailureMessages ==
    {"Keys path not specified", "Email not specified", "Database name not specified",
     "SMTP not configured", "Keys not loaded", "mkdir failed",
     "Database dump failed: not available", "Database dump failed: tool failed",
     "Database dump failed: no output file", "ZIP creation failed"}

\* C7 as stated: when delivery fails after the encrypted artifact was created,
\* what is reported differs from what a total failure reports and includes
\* the path of the encrypted artifact.
C7_DeliveryFailureReportsPath ==
    pc = "done" /\ err = "Failed to send email" =>
        /\ \A l \in log : l.kind = "Error" => l.arg \notin {<< <<m>> >> : m \in TotalFailureMessages}
        /\ \E l \in log : l.arg = encryptedFile

\* C8: when the provider's isAvailable returns false, createDump is never
\* invoked, no dump, archive or encrypted file is created, and the backup
\* ends as a failure.
C8_UnavailableCreatesNothing ==
    "unavailable" \in faults =>
        /\ calls \cap {"createDump", "archive", "encryptFile", "sendMail"} = {}
        /\ fs \cap {dumpPath, zipPath, encryptedFile} = {}
        /\ pc = "done" => exitCode = "1"

C8_Witness ==
    /\ pc = "done"
    /\ "unavailable" \in faults
    /\ exitCode = "1"

\* C9: a stage begins only when its predecessor's artifact is present:
\* archiving with the dump file, encryption with the closed zip, email with
\* the encrypted file, extraction with the decrypted archive, and the
\* provider's restore with a dump file found in the extraction directory.
C9_StagesWaitForPredecessor ==
    /\ pc \in {"b_zip", "b_zipping"} => dumpPath \in fs
    /\ pc = "b_encrypt" => zipClosed /\ zipPath \in fs
    /\ pc = "b_email" => encryptedFile \in fs
    /\ "sendMail" \in calls => encryptedFile \in fs
    /\ pc = "r_extract" => decryptedZipPath \in fs
    /\ pc \in {"r_getProvider", "r_restoreFromDump"} =>
          /\ dumpFilePath \in readdir(extractDir, fs)
          /\ IsDumpFile(dumpFilePath)

C9_Witness ==
    /\ "sendMail" \in calls
    /\ zipClosed
    /\ {dumpPath, zipPath, encryptedFile} \subseteq fs

\* C10 as stated: restoring a corrupted artifact fails at the decrypt stage
\* with a decryption failure, neither the extraction nor a provider's
\* restoreFromDump is invoked, and the working directory is removed.
C10_CorruptFailsAtDecrypt ==
    RestoreHasEnded /\ artifact = "corrupt" =>
        /\ err = "Decryption failed"
        /\ calls \cap {"unzip", "restoreFromDump"} = {}
        /\ pc = "done" => exitCode = "1"
        /\ WorkDirAbsent

\* C10 amended: restoring a corrupted artifact fails at the decrypt stage with
\* a decryption failure, neither the extraction nor a provider's
\* restoreFromDump is invoked, and the working directory is removed unless
\* the recursive removal itself failed.
C10_CorruptFailsAtDecryptUnlessRmFails ==
    RestoreHasEnded /\ artifact = "corrupt" =>
        /\ err = "Decryption failed"
        /\ calls \cap {"unzip", "restoreFromDump"} = {}
        /\ pc = "done" => exitCode = "1"
        /\ "rm" \notin faults => WorkDirAbsent

C10_Witness ==
    /\ pc = "done"
    /\ artifact = "corrupt"
    /\ "decryptFile" \in calls
    /\ "rm" \notin faults
    /\ exitCode = "1"
    /\ WorkDirAbsent

\* C11: decrypting with the private key of a pair other than the one the
\* artifact was encrypted to fails: decryptBackupFile never reports success
\* (the pipeline never goes on to extract what it wrote), and the restore
\* ends with "Decryption failed".
C11_ForeignKeyFails ==
    cmd = "restore" /\ keyPair = "foreign" =>
        /\ pc \notin {"r_extract", "r_getProvider", "r_restoreFromDump"}
        /\ calls \cap {"unzip", "restoreFromDump"} = {}
        /\ RestoreHasEnded => err = "Decryption failed"

C11_Witness ==
    /\ cmd = "restore"
    /\ keyPair = "foreign"
    /\ artifact = "good"
    /\ "decryptFile" \in calls
    /\ decryptedZipPath \in fs
    /\ err = "Decryption failed"

\* C12: no step of the backup or restore flow deletes the keys file (a keys
\* file that was given is still on disk in every state), and the only path
\* ever handed to the mail transport as an attachment is the encrypted
\* artifact.
C12_KeysNeverTouched ==
    /\ keysFile # "unset" => keysPath \in fs
    /\ attachments \subseteq {encryptedFile}

\* C13: validateRequiredKeys, and loadKeys with it, throws exactly when a
\* required key is absent from the object; the message then names the absent
\* required keys, each of them and no other, in the order of the required
\* list; with no required key absent (an empty list included) nothing is
\* thrown.
AbsentAt == {i \in DOMAIN args.requiredKeys : args.requiredKeys[i] \notin args.obj}

NthAbsent(n) == CHOOSE i \in AbsentAt : Cardinality({j \in AbsentAt : j < i}) = n - 1

C13_MissingKeysNamedExactly ==
    call \in {"validateRequiredKeys", "loadKeys"} /\ HasResult =>
        /\ result.threw <=> AbsentAt # {}
        /\ result.threw =>
             /\ result.message.text = "Missing required keys: "
             /\ Len(result.message.joined) = Cardinality(AbsentAt)
             /\ \A n \in 1..Cardinality(AbsentAt) :
                  result.message.joined[n] = args.requiredKeys[NthAbsent(n)]

C13_Witness ==
    /\ call = "loadKeys"
    /\ HasResult
    /\ args.obj = {"comment"}
    /\ result.threw
    /\ result.message.joined = <<"publicKey", "privateKey">>

\* C14: getProvider ignores the letter case of the name: a name whose
\* lower-cased form is a key of the registry gets the instance stored under
\* that key, the same for every spelling of the name; any other name makes it
\* throw an error that lists every registered key.
C14_LookupIgnoresCase ==
    call = "getProvider" =>
        IF MapHas(providers, toLowerCase(args.name))
          THEN /\ result = Returns(MapGet(providers, toLowerCase(args.name)))
               /\ \A other \in ProviderNames :
                    toLowerCase(other) = toLowerCase(args.name) =>
                        getProvider(other) = result
          ELSE /\ result.threw
               /\ result.message.name = args.name
               /\ {result.message.available[i] :
                       i \in DOMAIN result.message.available}
                    = {providers[i].key : i \in DOMAIN providers}

C14_Witness ==
    /\ call = "getProvider"
    /\ args.name = "PostgreSQL"
    /\ result = Returns("postgresProvider")

\* C15: registerProvider never changes what an already registered key
\* resolves to: every key of the registry keeps its instance across every
\* step.
C15_RegistrationIsAdditive ==
    [][\A i \in DOMAIN providers :
          MapGet(providers', providers[i].key) = providers[i].value]_vars

\* the options createDump requires, as the claims list them: uri for
\* MongoDB, user and database for MySQL and PostgreSQL
RequiredPresent(provider, bag) ==
    IF provider = "mongodbProvider"
      THEN bag.uri # "undefined"
      ELSE bag.user # "undefined" /\ bag.database # "undefined"

\* C16: for the MongoDB, MySQL and PostgreSQL providers, validateConfig
\* applied to the options bag answers valid exactly when the fields that
\* createDump requires are present, whatever other fields the bag holds,
\* and an invalid answer comes with at least one error.
C16_ValidateConfigRequiresDumpFields ==
    /\ call = "validateConfig"
    /\ HasResult
    /\ args.provider # "supabaseProvider"
    => /\ result.valid <=> RequiredPresent(args.provider, args.config)
       /\ ~result.valid => Len(result.errors) > 0

\* C17: createDump and restoreFromDump of the MongoDB, MySQL and PostgreSQL
\* providers throw without running the external tool whenever a required
\* option is absent.
C17_MissingOptionNeverRunsTool ==
    /\ call \in {"createDump", "restoreFromDump"}
    /\ HasResult
    /\ args.provider # "supabaseProvider"
    /\ ~RequiredPresent(args.provider, args.options)
    => /\ result.threw
       /\ ~result.invoked

C17_Witness ==
    /\ call = "createDump"
    /\ args.provider = "mysqlProvider"
    /\ args.options.user = "x"
    /\ args.options.database = "undefined"
    /\ args.options.mysqlDatabase = "x"
    /\ args.tool.exit = 0
    /\ HasResult
    /\ result.threw
    /\ ~result.invoked

\* C18: the dump step succeeds exactly when the provider's tool was run,
\* exited with status zero, and the output file exists afterwards; what the
\* tool wrote to stderr changes neither outcome and at most causes a warning.
C18_DumpSucceedsIffExitZeroAndFile ==
    call = "dumpDatabase" /\ HasResult =>
        /\ ~result.threw <=>
             /\ result.invoked
             /\ args.tool.exit = 0
             /\ args.existed \/ args.tool.wrote
        /\ result.warned => args.tool.exit = 0 /\ args.tool.stderr = "other"

C18_Witness ==
    /\ call = "dumpDatabase"
    /\ args.providerName = "MongoDB"
    /\ args.tool = [exit |-> 0, wrote |-> TRUE, stderr |-> "other"]
    /\ ~args.existed
    /\ HasResult
    /\ ~result.threw
    /\ result.warned

\* C19: createZipArchive resolves only after the output stream has closed,
\* and every streaming error makes it reject, so that the command always
\* comes to its end through a settled promise: it is never left waiting
\* for ever and never cut off by an unhandled stream error.
C19_ZipSettlesOnEveryStreamError ==
    cmd = "backup" =>
        /\ pc \in {"b_encrypt", "b_report", "b_email", "b_cleanup", "b_finish"}
             => zipClosed
        /\ exitCode \notin {"hung", "crashed"}

\* C20: encryptBackupFile and decryptBackupFile never invoke the capability
\* when the input file is absent; they succeed only if the capability was
\* invoked, returned without error, and the output file exists afterwards;
\* in every other case, the capability not being loaded included, they throw
\* 'Encryption failed' (encryptBackupFile) or 'Decryption failed'.
C20_CryptSucceedsOnlyWithOutput ==
    call \in {"encryptBackupFile", "decryptBackupFile"} /\ HasResult =>
        /\ result.invoked => args.inputExists /\ args.o # "unbound"
        /\ ~result.threw <=>
             /\ args.inputExists
             /\ args.o \in {"ok", "okNoFile"}
             /\ args.existed \/ args.o \in {"ok", "failPartial"}
        /\ result.threw =>
             result.message = IF call = "encryptBackupFile"
                                THEN "Encryption failed: "
                                ELSE "Decryption failed: "

C20_Witness ==
    /\ call = "encryptBackupFile"
    /\ ~args.inputExists
    /\ args.o = "ok"
    /\ HasResult
    /\ result.threw
    /\ ~result.invoked


\* C21: for every registered provider, the dump compressed by
\* createZipArchive and extracted by extractZipArchive into an empty
\* directory comes back as a file with the same base name and the same
\* content, the provider's extension being one that extraction recognises.
C21_RoundTripGivesDumpBack ==
    call = "roundTrip" /\ HasResult /\ ~args.stale =>
        /\ getFileExtension(args.provider) \in {"sql", "dump", "archive", "bson"}
        /\ ~result.threw
        /\ Basename(result.value.path) = Basename(args.dump.path)
        /\ result.value.content = args.dump.content

C21_Witness ==
    /\ call = "roundTrip"
    /\ args.provider = "mongodb"
    /\ ~args.stale
    /\ HasResult
    /\ ~result.threw
    /\ result.value.content = "bytes2"


\* C22: a timestamp is eight digits, a dash and six digits, spelling the
\* year, month, day, hours, minutes and seconds; generateBackupFilename
\* gives supabase-backup-<timestamp>-<dbname>.<ext> with the database name
\* as given and 'sql' when no extension is given; a run's dump carries its
\* provider's extension (sql for Supabase and MySQL, archive for MongoDB,
\* dump for PostgreSQL), its archive 'zip', and its encrypted artifact is
\* the archive's path with '.encrypted' appended.
Digits == {"0", "1", "2", "3", "4", "5", "6", "7", "8", "9"}

TwoDigits(str, i, n) == str[i] = Digit(n \div 10) /\ str[i + 1] = Digit(n % 10)

ClaimedExtension(name) ==
    CASE toLowerCase(name) \in {"supabase", "mysql"} -> "sql"
      [] toLowerCase(name) = "mongodb" -> "archive"
      [] OTHER -> "dump"

C22_ArtifactNamesFollowPattern ==
    /\ call = "generateTimestamp" /\ HasResult =>
         /\ Len(result.value) = 15
         /\ \A i \in (1..15) \ {9} : result.value[i] \in Digits
         /\ result.value[9] = "-"
         /\ SubSeq(result.value, 1, 4) = <<"2", "0", "2", "6">>
         /\ TwoDigits(result.value, 5, args.date.month + 1)
         /\ TwoDigits(result.value, 7, args.date.date)
         /\ TwoDigits(result.value, 10, args.date.hours)
         /\ TwoDigits(result.value, 12, args.date.minutes)
         /\ TwoDigits(result.value, 14, args.date.seconds)
    /\ call = "generateBackupFilename" /\ HasResult =>
         /\ Len(result.value) = 4
         /\ result.value[1] = "supabase-backup"
         /\ result.value[3] = args.dbName
         /\ result.value[4] = IF args.extension = "undefined"
                                THEN "sql" ELSE args.extension
    /\ call = "artifactNames" /\ HasResult =>
         /\ ~result.threw
         /\ \A f \in {result.value.dumpFile, result.value.zipFile} :
              /\ Len(f) = 2
              /\ f[1] = backupWorkDir[1]
              /\ Len(f[2]) = 4
              /\ f[2][1] = "supabase-backup"
              /\ f[2][3] = args.dbName
         /\ result.value.dumpFile[2][4] = ClaimedExtension(args.providerName)
         /\ result.value.zipFile[2][4] = "zip"
         /\ result.value.encryptedFile[1] = result.value.zipFile[1]
         /\ result.value.encryptedFile[2]
              = result.value.zipFile[2] \o <<"encrypted">>

C22_Witness ==
    /\ call = "generateTimestamp"
    /\ args.date = [year |-> 2026, month |-> 8, date |-> 9, hours |-> 7,
                    minutes |-> 0, seconds |-> 5]
    /\ HasResult
    /\ result.value = <<"2", "0", "2", "6", "0", "9", "0", "9", "-",
                        "0", "7", "0", "0", "0", "5">>


\* the first of the values that is given, in the order command line, saved
\* configuration, environment, built-in default
Precedence(cli, saved, env, default) ==
    IF cli # "undefined" THEN cli
    ELSE IF saved # "undefined" THEN saved
    ELSE IF env # "undefined" THEN env
    ELSE default

\* C23: every value mergeConfig hands to the backup is chosen with the
\* precedence command line > saved configuration > environment > default;
\* in particular a saved SMTP host, port, secure flag, user or password wins
\* over the environment variable of the same setting.
C23_SavedConfigBeatsEnvironment ==
    call = "mergeConfig" /\ HasResult =>
        LET c == args.config
            v == args.env
            m == result.value
        IN  /\ m.email = Precedence(args.options.email, c.defaultEmail,
                                    "undefined", "null")
            /\ m.workDir = Precedence(args.options.workDir, c.workDir,
                                      "undefined", "./backups")
            /\ m.smtp.host = Precedence("undefined", c.host, v.SMTP_HOST,
                                        "smtp.gmail.com")
            /\ m.smtp.user = Precedence("undefined", c.user, v.SMTP_USER, "null")
            /\ m.smtp.pass = Precedence("undefined", c.pass, v.SMTP_PASS, "null")
            /\ c.port # "undefined" => m.smtp.port = parseInt(c.port)
            /\ c.secure # "undefined" => (m.smtp.secure <=> c.secure = "TRUE")


\* C24: a backup run with --no-email sends no email and never fails for
\* lack of a recipient address or of SMTP credentials, whether or not a
\* default email is saved in the configuration.
C24_NoEmailSkipsDelivery ==
    cmd = "backup" /\ cliEmail = "false" =>
        /\ "sendMail" \notin calls
        /\ attachments = {}
        /\ err \notin {"Email not specified", "SMTP not configured",
                        "attachment missing", "Failed to send email"}


\* C25: after saveConfig has completed successfully the configuration file
\* has mode 0600 (read and write for the owner, nothing else), whether it
\* was created by the call or existed before with another mode.
C25_SavedConfigIsOwnerOnly ==
    call = "saveConfig" /\ HasResult /\ ~result.threw =>
        result.value = {"ur", "uw"}


\* C26: when a stage of createBackup fails and an unlink of its catch block
\* fails too, and when the recursive removal of restoreFromBackup fails after
\* a stage failure, the error that reaches the command, and that it prints
\* before exiting with status 1, is the failure of the stage.
C26_CleanupFailureNeverMasks ==
    /\ /\ cmd = "backup"
       /\ faults \cap {"unlinkDump", "unlinkZip"} # {}
       /\ "encryptFile" \notin calls
       => /\ err \in {"Database dump failed: tool failed",
                       "Database dump failed: no output file",
                       "ZIP creation failed"}
          /\ pc = "done" =>
               exitCode = "1" /\ Line("Error", << <<err>> >>) \in log
    /\ /\ cmd = "restore"
       /\ "rm" \in faults
       => /\ err \in {"none", "Decryption failed",
                       "Failed to extract archive: unzip failed",
                       "Failed to extract archive: No database dump file found",
                       "Provider not found", "restore failed"}
          /\ pc = "done" /\ err # "none" =>
               exitCode = "1" /\ Line("Error", << <<err>> >>) \in log

C26_Witness ==
    /\ cmd = "backup"
    /\ pc = "done"
    /\ faults = {"unlinkDump", "unlinkZip"}
    /\ err = "ZIP creation failed"
    /\ {dumpPath, zipPath} \subseteq fs


\* C27: a backup invocation whose encrypted artifact was created and, when
\* email is enabled, sent, ends with exit status 0 even if deleting the
\* intermediate dump or archive failed.
C27_DeleteFailureNeverFailsBackup ==
    /\ cmd = "backup"
    /\ pc = "done"
    /\ encryptedFile \in fs
    /\ emailEnabled => encryptedFile \in attachments /\ err # "Failed to send email"
    => exitCode = "0"


\* the words of a command line that are one bare flag
Flags(cmdLine) == {cmdLine[i][1] : i \in DOMAIN cmdLine}

\* the values that appear anywhere in a command line
WordParts(cmdLine) ==
    UNION {{cmdLine[i][j] : j \in DOMAIN cmdLine[i]} : i \in DOMAIN cmdLine}

\* C28: the PostgreSQL provider's restoreFromDump passes --clean and
\* --if-exists to pg_restore exactly when a clean restore is requested, and
\* neither of them otherwise.
C28_CleanFlagsOnlyOnCleanRestore ==
    call = "PostgreSQLProvider.restoreFromDump" /\ HasResult /\ result.ran =>
        /\ "--clean" \in Flags(result.cmdLine) <=> args.options.clean = "TRUE"
        /\ "--if-exists" \in Flags(result.cmdLine) <=> args.options.clean = "TRUE"

\* C29: whenever the PostgreSQL provider runs pg_dump or pg_restore with a
\* password, the password is no part of the command line, the child's
\* environment holds it as PGPASSWORD, and process.env of the host is after
\* the call what it was before.
C29_PasswordOnlyInChildEnvironment ==
    /\ call \in {"PostgreSQLProvider.createDump",
                  "PostgreSQLProvider.restoreFromDump"}
    /\ HasResult
    => /\ result.processEnv = args.processEnv
       /\ result.ran /\ Truthy(args.options.password) =>
            /\ args.options.password \notin WordParts(result.cmdLine)
            /\ result.env.PGPASSWORD = args.options.password
            /\ result.env.PATH = args.processEnv.PATH

C29_Witness ==
    /\ call = "PostgreSQLProvider.createDump"
    /\ HasResult
    /\ result.ran
    /\ args.options.password = "s3cret"
    /\ args.processEnv.PGPASSWORD = "hostpw"
    /\ result.env.PGPASSWORD = "s3cret"


\* C30: the backup command dumps with the provider named by --provider and
\* hands it the connection options of the command line; it dumps with
\* Supabase when no provider is named.
C30_BackupUsesNamedProvider ==
    call = "backupCommand" /\ HasResult =>
        /\ ~result.threw
        /\ result.value.providerName = OrDefault(args.provider, "supabase")
        /\ result.value.providerOptions = [uri |-> args.uri, user |-> args.user]


\* C37: in the backup command a keys file that cannot be loaded (missing,
\* unparsable or lacking a required key) makes the run fail before the
\* provider is probed or its dump tool run and before any dump, archive or
\* encrypted file exists; not even the working directory is created.
C37_KeysLoadedBeforeAnythingIsProduced ==
    cmd = "backup" /\ keysFile # "valid" =>
        /\ calls = {}
        /\ dumpPath = NoPath /\ zipPath = NoPath
        /\ {p \in fs : IsUnder(p, backupWorkDir)} \subseteq {backupWorkDir}
        /\ pc = "done" => exitCode = "1"

C37_Witness ==
    /\ cmd = "backup"
    /\ pc = "done"
    /\ keysFile = "invalid"
    /\ err = "Keys not loaded"
    /\ exitCode = "1"


\* the file name of a path without its extension: prefix, timestamp, database
Stem(p) == SubSeq(p[Len(p)], 1, 3)

\* C32: once createBackup has generated both file names, the dump's and the
\* archive's carry the same prefix, timestamp and database name and differ
\* only in the extension, whatever the clock did in between.
C32_DumpAndZipShareTimestamp ==
    cmd = "backup" /\ dumpPath # NoPath /\ zipPath # NoPath =>
        Stem(dumpPath) = Stem(zipPath)


\* C33: the file extractZipArchive returns, which restoreFromBackup hands to
\* the provider's restoreFromDump, is an entry of the archive it extracted,
\* also when the extraction directory held a dump file before the call.
C33_RestoredFileComesFromArchive ==
    call = "roundTrip" /\ HasResult /\ ~result.threw =>
        /\ result.value.path = Join(extractDir, args.dump.path[Len(args.dump.path)])
        /\ result.value.content = args.dump.content

\* C34: a file and a directory that were inside the working directory before
\* restoreFromBackup started (here the keys file kept there, and the
\* directory itself) are still present whenever the restore command is
\* running or has ended.
C34_RestoreRemovesOnlyItsOwn ==
    cmd = "restore" /\ keysInWorkDir => {restoreWorkDir, keysPath} \subseteq fs


SmtpVariables == {"SMTP_USER", "SMTP_PASS", "SMTP_HOST", "SMTP_PORT", "SMTP_SECURE"}

C39_FormatBytesUnits ==
    call = "formatBytes" /\ HasResult =>
        IF args.bytes = <<0>>
          THEN result.value = [whole |-> 0, hundredths |-> 0, unit |-> "Bytes"]
          ELSE /\ result.value.unit \in {"Bytes", "KB", "MB", "GB"}
               /\ result.value.unit =
                    <<"Bytes", "KB", "MB", "GB">>[Len(args.bytes)]
               /\ result.value.whole \in {args.bytes[1], args.bytes[1] + 1}


\* what an invocation ends with when it runs alone: the failure of the stage
\* that fails, or none
ErrorAlone(self) ==
    CASE args[self].failAt = "dump" -> "Database dump failed"
      [] args[self].failAt = "zip" -> "ZIP creation failed"
      [] args[self].failAt = "decrypt" -> "Decryption failed"
      [] args[self].failAt = "extract" -> "Failed to extract archive"
      [] args[self].failAt = "restore" -> "restore failed"
      [] OTHER -> "none"

\* the invocation has ended as it would have alone, a createBackup that
\* returned with its two files on disk
EndsAsAlone(self) ==
    result[self].pc \in {"returned", "threw"} =>
        /\ result[self].err = ErrorAlone(self)
        /\ args[self].kind = "createBackup" /\ result[self].pc = "returned" =>
             {result[self].dumpPath, result[self].zipPath} \subseteq fs

\* C31: two invocations with different working directories never remove or
\* write a path the other created, and each ends with the outcome and the
\* artifacts it has when run alone.
C31_DifferentWorkDirsDoNotInterfere ==
    args[1].workDir # args[2].workDir =>
        /\ faults = {}
        /\ \A self \in Invocations : EndsAsAlone(self)

\* C35: of two createBackup invocations in the same working directory (the
\* database name being the same), the one that returned keeps its dump and
\* its archive on disk whatever happens to the other.
C35_FailureSparesTheOthersFiles ==
    /\ \A self \in Invocations : args[self].kind = "createBackup"
    /\ args[1].workDir = args[2].workDir
    => \A self \in Invocations :
         result[self].pc = "returned" =>
             {result[self].dumpPath, result[self].zipPath} \subseteq fs

\* C36: of two restoreFromBackup invocations called as the restore command
\* calls them, without a working directory, each has its decrypted archive
\* on disk until it has extracted it, and its extracted dump until the
\* provider has read it.
C36_ConcurrentRestoresKeepTheirFiles ==
    \A self \in Invocations :
        /\ args[self].kind = "restoreFromBackup"
        /\ args[self].workDir = restoreWorkDir
        /\ args[Other(self)].kind = "restoreFromBackup"
        /\ args[Other(self)].workDir = restoreWorkDir
        => /\ result[self].pc = "extract" => result[self].zipPath \in fs
           /\ result[self].pc = "restoreFromDump" => result[self].dumpFilePath \in fs

====
